---- MODULE Spec2Model ----
(***************************************************************************)
(* Model of the DumbJared scrape-to-database reconciliation engine         *)
(* (backend/scraper/services/scraper_service.py), the celery tasks that    *)
(* drive unattended scraping (backend/scraper/tasks.py), the periodic-task *)
(* set-up (backend/scraper/utils/sync_tasks.py), the page extractor's      *)
(* cutoff (backend/scraper/utils/trivia_scraper.py) and the two admin      *)
(* entry points that touch the same tables (api/admin.py, api/views.py).   *)
(*                                                                         *)
(* Conventions.  A nullable column or an Optional value is a set with at   *)
(* most one element: None is {}, a present value x is {x}.  A date is a    *)
(* day number; day 0 is 1970-01-01 and Weekday(d) is date.weekday().       *)
(* timezone.now() has the day as its grain.  A Game row stands for its own *)
(* primary key (games are never deleted and the unique constraints give    *)
(* one row per (game_type, day, time, venue)); Event and Team rows carry   *)
(* an explicit pk drawn from a sequence kept with the tables.              *)
(***************************************************************************)
EXTENDS Integers, Sequences, FiniteSets, TLC

None == {}
Some(x) == {x}
The(o) == CHOOSE x \in o : TRUE

RECURSIVE Reverse(_)
Reverse(s) == IF s = <<>> THEN <<>> ELSE Append(Reverse(Tail(s)), Head(s))

Range(s) == {s[i] : i \in 1..Len(s)}

\* date.weekday(): 0 = Monday .. 6 = Sunday
Weekday(d) == d % 7

----------------------------------------------------------------------------
(* Bounds of the model *)
MaxDate == 3
MaxRecaps == 2
MaxTeams == 1
MaxTicks == 2

\* "1970-01-01", the cutoff of a forced full re-scrape
Epoch == 0

Url == "u1"
VenueName == "The Pub"
Types == {"PUB", "BINGO"}
Quizmasters == {"q1"}
OfficialIds == {42}
\* sorted(): the team names of the model in string order
NameOrder == <<"A", "B", "Walkers">>
Names == {"A", "B"}
Scores == {50, 70}

TimeOfDay(h, m) == [hour |-> h, minute |-> m]

\* scraper/types.py GameData
GameData(t, d, tm) == [type |-> t, day |-> d, time |-> tm]
\* scraper/types.py TeamData
TeamData(id, n, s) == [team_id |-> id, name |-> n, score |-> s]
\* scraper/types.py EventData
EventData(d, t, q, desc, teams) ==
    [date |-> d, game_type |-> t, quizmaster |-> q, description |-> desc, teams |-> teams]
\* scraper/types.py PageData, VenueData
PageData(n, games, events) ==
    [venue_data |-> [name |-> n, games |-> games], event_data |-> events]

----------------------------------------------------------------------------
VARIABLES
    db,          \* the relational store: one field per table
    site,        \* the venue's page: its name, its game list and the recaps posted so far
    today,       \* timezone.localdate()
    clock,       \* "midnight" while the 00:00 jobs of today may still fire, then "day"
    fired,       \* games whose re-enable job has fired today
    self_games,  \* ScraperService.games of the service object used last
    last,        \* the last step: which operation, on what, and what it returned
    probe,       \* a direct call of a function of the program: its arguments and its result
    pending      \* the auto_scrape calls that have read the page and have not yet written

vars == <<db, site, today, clock, fired, self_games, last, probe, pending>>

EmptyDb ==
    [venues |-> {}, game_types |-> {}, games |-> {}, quizmasters |-> {},
     events |-> {}, teams |-> {}, team_names |-> {}, teps |-> {},
     crontabs |-> {}, periodic_tasks |-> {},
     event_seq |-> 0, team_seq |-> 0]

----------------------------------------------------------------------------
(* The reconciliation engine: scraper/services/scraper_service.py             *)
(* A step takes the state of the with-block of push_to_db and gives the state *)
(* after it: the tables as written so far, whether and where a step raised,   *)
(* and the lookups the steps hand to the later ones.                          *)

Block(d) ==
    [raised |-> FALSE, at |-> "", db |-> d, games |-> None,
     events_not_updated |-> <<>>, updated_event_pk |-> None, updated_event_data |-> None,
     events |-> {}, teams |-> {}, guest_teams |-> {}]

\* the step raises: the block ends here
Raised(c, at) == [c EXCEPT !.raised = TRUE, !.at = at]

MinOf(S) == CHOOSE x \in S : \A y \in S : x <= y

RECURSIVE SeqOf(_)
\* the rows of a query in the order the store returns them
SeqOf(S) ==
    IF S = {} THEN <<>>
    ELSE LET x == CHOOSE y \in S : TRUE IN <<x>> \o SeqOf(S \ {x})

\* step 1: find-or-create the venue by URL, sync its name, stamp last_scraped_at
_create_or_update_venue(c, source_url, venue_name, now) ==
    LET existing == {v \in c.db.venues : v.url = source_url}
        venue_obj == IF existing = {}
                     THEN [url |-> source_url, name |-> venue_name, last_scraped_at |-> None]
                     ELSE [The(existing) EXCEPT !.name = venue_name]
    IN [c EXCEPT !.db.venues =
            {v \in @ : v.url # source_url} \cup {[venue_obj EXCEPT !.last_scraped_at = Some(now)]}]

\* step 2: GameType rows for the listed games and for the scraped events
_process_game_types(c, data) ==
    [c EXCEPT !.db.game_types = @ \cup {g.type : g \in Range(data.venue_data.games)}
                                  \cup {e.game_type : e \in Range(data.event_data)}]

OfficialGame(g, venue) ==
    [type |-> g.type, day |-> Some(g.day), time |-> Some(g.time), venue |-> venue]
CustomGame(t, venue) ==
    [type |-> t, day |-> None, time |-> None, venue |-> venue]

\* the games the venue lists
ListedGames(data, venue) == {OfficialGame(g, venue) : g \in Range(data.venue_data.games)}

\* a custom game for every scraped event, listed or not
CustomForEveryEvent(data, venue) ==
    {[type |-> e.game_type, day |-> None, time |-> None, venue |-> venue] :
        e \in Range(data.event_data)}

\* a custom game only for the scraped events whose type is not listed at all
CustomForUnlistedTypes(data, venue) ==
    {CustomGame(t, venue) :
        t \in {e.game_type : e \in Range(data.event_data)}
                \ {g.type : g \in Range(data.venue_data.games)}}

\* a custom game for every scraped event whose (type, weekday) is not listed
CustomGames(data, venue) ==
    LET official_game_keys == {<<g.type, g.day>> : g \in Range(data.venue_data.games)}
        custom_game_keys ==
            {e.game_type : e \in {x \in Range(data.event_data) :
                                    <<x.game_type, Weekday(x.date)>> \notin official_game_keys}}
    IN {CustomGame(t, venue) : t \in custom_game_keys}

\* Game.objects.filter(query): an empty Q() filters nothing
SelectGames(all_games, wanted) ==
    IF wanted = {} THEN all_games ELSE all_games \cap wanted

\* a check that lets every selection pass
NeverAmbiguous(selected) == FALSE

\* two of the selected games share the key (type name, day)
Ambiguous(selected) ==
    \E g1, g2 \in selected : g1 # g2 /\ g1.type = g2.type /\ g1.day = g2.day

\* step 3: Game rows, then the (type name, day) -> Game lookup; the lookup is a
\* set of Game rows in which no two share (type, day)
_process_games(c, data, venue) ==
    LET wanted == ListedGames(data, venue) \cup CustomGames(data, venue)
        written == [c EXCEPT !.db.games = @ \cup wanted]
    IN IF Ambiguous(SelectGames(written.db.games, wanted))
       THEN Raised(written, "games")
       ELSE [written EXCEPT !.games = Some(SelectGames(written.db.games, wanted))]

\* a matching that tries the custom game first
MatchCustomFirst(games, game_type, day) ==
    IF {g \in games : g.type = game_type /\ g.day = None} # {}
    THEN [err |-> FALSE, game |-> {g \in games : g.type = game_type /\ g.day = None}]
    ELSE IF {g \in games : g.type = game_type /\ g.day = Some(day)} # {}
         THEN [err |-> FALSE, game |-> {g \in games : g.type = game_type /\ g.day = Some(day)}]
         ELSE [err |-> TRUE, game |-> None]

\* step 4: exact (type, day) first, then the (type, None) custom game, else KeyError
_match_game_to_event(games, game_type, day) ==
    LET exact == {g \in games : g.type = game_type /\ g.day = Some(day)}
        custom == {g \in games : g.type = game_type /\ g.day = None}
    IN IF exact # {} THEN [err |-> FALSE, game |-> exact]
       ELSE IF custom # {} THEN [err |-> FALSE, game |-> custom]
       ELSE [err |-> TRUE, game |-> None]

MatchEvent(games, e) == _match_game_to_event(games, e.game_type, Weekday(e.date))

\* @lru_cache on the method: the cache is keyed by (self, game_type, day) and is not
\* tied to self.games. A hit returns the Game stored at the miss; a miss runs the
\* method on the present self.games and stores what it returns; a KeyError is not
\* stored. cache is the part of the cache with the key of one service object.
CachedMatch(cache, games, game_type, day) ==
    IF \E c \in cache : c.game_type = game_type /\ c.day = day
    THEN [err |-> FALSE,
          game |-> {c.game : c \in {x \in cache : x.game_type = game_type /\ x.day = day}},
          cache |-> cache]
    ELSE [err |-> _match_game_to_event(games, game_type, day).err,
          game |-> _match_game_to_event(games, game_type, day).game,
          cache |-> cache \cup {[game_type |-> game_type, day |-> day, game |-> g] :
                                    g \in _match_game_to_event(games, game_type, day).game}]

\* some scraped event has no game in the lookup
LookupFails(games, event_data) ==
    \E i \in 1..Len(event_data) : MatchEvent(games, event_data[i]).err

\* step 5
_process_quizmasters(c, event_data) ==
    IF c.raised THEN c
    ELSE [c EXCEPT !.db.quizmasters = @ \cup {e.quizmaster : e \in Range(event_data)}]

----------------------------------------------------------------------------
(* Periodic-task set-up: scraper/utils/sync_tasks.py *)

\* f"{lo}-{hi}"
HourRange(lo, hi) == ToString(lo) \o "-" \o ToString(hi)

\* a window computed for any time of day, also at and after 21:30
CrontabHoursUnlimited(game_time) ==
    IF game_time.minute < 30
    THEN [err |-> FALSE, hours |-> HourRange(game_time.hour + 1, game_time.hour + 2)]
    ELSE [err |-> FALSE, hours |-> HourRange(game_time.hour + 1, game_time.hour + 3)]

\* the hour range "lo-hi" of the scrape window; err when NotImplementedError is raised
_generate_crontab_hours(game_time) ==
    IF game_time.hour > 21 \/ (game_time.hour = 21 /\ game_time.minute >= 30)
    THEN [err |-> TRUE, hours |-> ""]
    ELSE IF game_time.minute < 30
         THEN [err |-> FALSE, hours |-> HourRange(game_time.hour + 1, game_time.hour + 2)]
         ELSE [err |-> FALSE, hours |-> HourRange(game_time.hour + 1, game_time.hour + 3)]

Crontab(minute, hour, dow) == [minute |-> minute, hour |-> hour, day_of_week |-> dow]

\* f"{game} - <suffix>": str(game) shows the venue's name and the game's type, day and time
TaskName(d, game, suffix) ==
    [venue_name |-> The({v.name : v \in {w \in d.venues : w.url = game.venue}}),
     game |-> game, suffix |-> suffix]

\* PeriodicTask.objects.get_or_create(name, task, crontab, kwargs): a new row is enabled
GetOrCreateTask(tasks, name, task, crontab, game) ==
    IF \E t \in tasks : t.name = name /\ t.task = task
                        /\ t.crontab = crontab /\ t.game_pk = game
    THEN tasks
    ELSE tasks \cup {[name |-> name, task |-> task, crontab |-> crontab,
                      game_pk |-> game, enabled |-> TRUE]}

\* the three crontabs of a game: placeholder, scrape window, re-enable
GenSchedule(tm, day) ==
    Crontab(ToString(tm.minute), ToString(tm.hour - 1), (day + 1) % 7)
ScrapeSchedule(tm, day, scrape_interval) ==
    Crontab("*/" \o ToString(scrape_interval), _generate_crontab_hours(tm).hours, (day + 1) % 7)
ReenableSchedule(day) == Crontab("0", "0", (day + 2) % 7)

\* the three periodic tasks of a game
GameTasks(d, game, tm, day, scrape_interval) ==
    GetOrCreateTask(
        GetOrCreateTask(
            GetOrCreateTask(d.periodic_tasks,
                            TaskName(d, game, "Generate placeholder event"),
                            "generate_placeholder_event", GenSchedule(tm, day), game),
            TaskName(d, game, "Auto scrape"),
            "auto_scrape", ScrapeSchedule(tm, day, scrape_interval), game),
        TaskName(d, game, "Re-enable scraping"),
        "reenable_scraping", ReenableSchedule(day), game)

\* the body of sync's loop for one game
SyncGame(c, game, scrape_interval) ==
    IF game.day = None \/ game.time = None THEN Raised(c, "sync")
    ELSE IF _generate_crontab_hours(The(game.time)).err
         THEN Raised([c EXCEPT !.db.crontabs = @ \cup {GenSchedule(The(game.time), The(game.day))}],
                     "sync")
         ELSE [c EXCEPT !.db.crontabs =
                            @ \cup {GenSchedule(The(game.time), The(game.day)),
                                    ScrapeSchedule(The(game.time), The(game.day), scrape_interval),
                                    ReenableSchedule(The(game.day))},
                        !.db.periodic_tasks =
                            GameTasks(c.db, game, The(game.time), The(game.day), scrape_interval)]

RECURSIVE SyncLoop(_, _)
SyncLoop(c, games) ==
    IF games = <<>> \/ c.raised THEN c
    ELSE SyncLoop(SyncGame(c, Head(games), 2), Tail(games))

\* sync(games) on the games of the lookup that have a day
sync(c) ==
    IF c.raised THEN c
    ELSE SyncLoop(c, SeqOf({g \in The(c.games) : g.day # None}))

----------------------------------------------------------------------------
(* Engine steps 6 to 11 *)

Indices(seq) == [i \in 1..Len(seq) |-> i]

\* the scraped events whose game is the target of the unattended call
MatchingEvents(games, event_data, autoscrape_game_id) ==
    {i \in 1..Len(event_data) : MatchEvent(games, event_data[i]).game = autoscrape_game_id}

\* a get that takes the Event of the game and the day, resolved or not
AnyEventOfToday(d, autoscrape_game_id, localdate) ==
    {e \in d.events : Some(e.game) = autoscrape_game_id /\ e.date = localdate}

\* Event.objects.select_for_update().get(game_id, date=today, quizmaster__isnull=True)
Placeholders(d, autoscrape_game_id, localdate) ==
    {e \in d.events : Some(e.game) = autoscrape_game_id
                      /\ e.date = localdate /\ e.quizmaster = None}

\* a step 6 that leaves the matching event to the insert of step 7
LeftToInsert(c, event_obj, matching_event, i0, now) == c

\* the placeholder with the scraped event's recap, saved
FillIn(c, event_obj, matching_event, i0, now) ==
    [c EXCEPT !.db.events = (@ \ {event_obj}) \cup
                    {[event_obj EXCEPT !.end_datetime = Some(now),
                                       !.description = matching_event.description,
                                       !.quizmaster = Some(matching_event.quizmaster)]},
              !.events_not_updated = SelectSeq(@, LAMBDA i : i # i0),
              !.updated_event_pk = Some(event_obj.pk),
              !.updated_event_data = Some(matching_event)]

\* a step 6 that takes the first of several matching events instead of raising
TakesFirstMatch(c, matching_events, event_data, found, now) ==
    IF matching_events = {} THEN c
    ELSE IF found = {} THEN Raised(c, "autoscrape_event")
         ELSE FillIn(c, The(found), event_data[MinOf(matching_events)],
                     MinOf(matching_events), now)

\* the branch of step 6 on the scraped events that match the target
ResolveMatches(c, matching_events, event_data, found, now) ==
    IF Cardinality(matching_events) > 1 THEN Raised(c, "autoscrape_event")
    ELSE IF Cardinality(matching_events) = 1
         THEN IF found = {} THEN Raised(c, "autoscrape_event")
              ELSE FillIn(c, The(found), event_data[The(matching_events)],
                          The(matching_events), now)
         ELSE c

\* step 6: an unattended call fills in today's placeholder Event of the target game
_process_autoscrape_event(c, event_data, is_manual, autoscrape_game_id, now, localdate) ==
    IF c.raised THEN c
    ELSE IF is_manual THEN [c EXCEPT !.events_not_updated = Indices(event_data)]
    ELSE IF LookupFails(The(c.games), event_data) THEN Raised(c, "autoscrape_event")
    ELSE ResolveMatches([c EXCEPT !.events_not_updated = Indices(event_data)],
                        MatchingEvents(The(c.games), event_data, autoscrape_game_id),
                        event_data,
                        Placeholders(c.db, autoscrape_game_id, localdate), now)

RECURSIVE InsertAllEvents(_, _)
\* an insert that the unique constraint on (game, date) does not stop
InsertAllEvents(d, rows) ==
    IF rows = <<>> THEN d
    ELSE InsertAllEvents([d EXCEPT !.events = @ \cup {[Head(rows) EXCEPT !.pk = d.event_seq + 1]},
                                   !.event_seq = @ + 1],
                         Tail(rows))

RECURSIVE InsertEvents(_, _)
\* Event.objects.bulk_create(..., ignore_conflicts=True): a row whose (game, date)
\* is taken is skipped
InsertEvents(d, rows) ==
    IF rows = <<>> THEN d
    ELSE IF \E e \in d.events : e.game = Head(rows).game /\ e.date = Head(rows).date
         THEN InsertEvents(d, Tail(rows))
         ELSE InsertEvents([d EXCEPT !.events = @ \cup {[Head(rows) EXCEPT !.pk = d.event_seq + 1]},
                                     !.event_seq = @ + 1],
                           Tail(rows))

\* the Event rows step 7 asks the store to insert
NewEventRows(games, event_data, events_not_updated) ==
    [k \in 1..Len(events_not_updated) |->
        [pk |-> 0, game |-> The(MatchEvent(games, event_data[events_not_updated[k]]).game),
         date |-> event_data[events_not_updated[k]].date, end_datetime |-> None,
         description |-> event_data[events_not_updated[k]].description,
         quizmaster |-> Some(event_data[events_not_updated[k]].quizmaster),
         theme |-> None]]

\* the (game, date) -> pk lookup of step 7; an empty Q() filters nothing
ReadEvents(events, games, event_data) ==
    {[game |-> e.game, date |-> e.date, pk |-> e.pk] :
        e \in {x \in events :
                \/ event_data = <<>>
                \/ \E s \in Range(event_data) :
                      Some(x.game) = MatchEvent(games, s).game /\ x.date = s.date}}

\* the lookup, read after the insert
WithEventLookup(c, games, event_data) ==
    [c EXCEPT !.events = ReadEvents(c.db.events, games, event_data)]

\* step 7: Event rows for the events step 6 left, then the (game, date) -> pk lookup
_process_events(c, event_data) ==
    IF c.raised THEN c
    ELSE IF LookupFails(The(c.games), event_data) THEN Raised(c, "events")
    ELSE WithEventLookup(
            [c EXCEPT !.db = InsertEvents(@, NewEventRows(The(c.games), event_data,
                                                          c.events_not_updated))],
            The(c.games), event_data)

AllTeams(event_data) ==
    UNION {Range(e.teams) : e \in Range(event_data)}

\* the ids of the scraped official teams
UniqueTeamIds(event_data) ==
    {The(t.team_id) : t \in {x \in AllTeams(event_data) : x.team_id # None}}

RECURSIVE InsertTeams(_, _)
\* Team.objects.bulk_create([Team(team_id=...)], ignore_conflicts=True)
InsertTeams(d, team_ids) ==
    IF team_ids = <<>> THEN d
    ELSE IF \E t \in d.teams : t.team_id = Some(Head(team_ids))
         THEN InsertTeams(d, Tail(team_ids))
         ELSE InsertTeams([d EXCEPT !.teams = @ \cup {[pk |-> d.team_seq + 1,
                                                       team_id |-> Some(Head(team_ids))]},
                                    !.team_seq = @ + 1],
                          Tail(team_ids))

\* the team_id -> pk lookup of step 8
ReadTeams(teams, unique_team_ids) ==
    {[team_id |-> The(t.team_id), pk |-> t.pk] :
        t \in {x \in teams : x.team_id # None /\ The(x.team_id) \in unique_team_ids}}

\* TeamName.objects.bulk_create(..., ignore_conflicts=True) for the official teams
OfficialNames(c, event_data) ==
    [c EXCEPT !.db.team_names = @ \cup
        {n \in {[name |-> t.name,
                 team |-> The({x.pk : x \in {y \in c.teams : Some(y.team_id) = t.team_id}}),
                 guest |-> FALSE] :
                    t \in {x \in AllTeams(event_data) : x.team_id # None}} :
            ~\E o \in c.db.team_names : o.name = n.name /\ o.team = n.team}]

\* the lookup, read after the insert
WithTeamLookup(c, event_data) ==
    [c EXCEPT !.teams = ReadTeams(c.db.teams, UniqueTeamIds(event_data))]

\* step 8: official Team rows and a TeamName row for every (team, name) seen
_process_official_teams(c, event_data) ==
    IF c.raised THEN c
    ELSE OfficialNames(
            WithTeamLookup([c EXCEPT !.db = InsertTeams(@, SeqOf(UniqueTeamIds(event_data)))],
                           event_data),
            event_data)

SortedNames(S) == SelectSeq(NameOrder, LAMBDA n : n \in S)

\* the guest names of the scraped teams
UniqueGuestNames(event_data) ==
    {t.name : t \in {x \in AllTeams(event_data) : x.team_id = None}}

\* a step 9 that finds no guest name in the store
NoGuestTeams(d, names) == {}

\* TeamName.objects.filter(guest=True, name__in=...): name -> team pk
ExistingGuestTeams(d, names) ==
    {[name |-> n.name, pk |-> n.team] : n \in {x \in d.team_names : x.guest /\ x.name \in names}}

\* a pairing that gives every new guest name the first of the blank teams
AllOnFirstBlank(c, sorted) ==
    [c EXCEPT !.db.teams = @ \cup {[pk |-> c.db.team_seq + i, team_id |-> None] :
                                        i \in 1..Len(sorted)},
              !.db.team_seq = @ + Len(sorted),
              !.db.team_names = @ \cup {[name |-> sorted[i], team |-> c.db.team_seq + 1,
                                         guest |-> TRUE] : i \in 1..Len(sorted)},
              !.guest_teams = @ \cup {[name |-> sorted[i], pk |-> c.db.team_seq + 1] :
                                        i \in 1..Len(sorted)}]

\* a blank Team and a TeamName for each new guest name, the i-th sorted name with the
\* i-th blank team
NewGuests(c, sorted) ==
    [c EXCEPT !.db.teams = @ \cup {[pk |-> c.db.team_seq + i, team_id |-> None] :
                                        i \in 1..Len(sorted)},
              !.db.team_seq = @ + Len(sorted),
              !.db.team_names = @ \cup {[name |-> sorted[i], team |-> c.db.team_seq + i,
                                         guest |-> TRUE] : i \in 1..Len(sorted)},
              !.guest_teams = @ \cup {[name |-> sorted[i], pk |-> c.db.team_seq + i] :
                                        i \in 1..Len(sorted)}]

\* step 9: a guest name that exists is reused; a new one gets a blank Team and a TeamName
_process_guest_teams(c, event_data) ==
    IF c.raised THEN c
    ELSE NewGuests(
            [c EXCEPT !.guest_teams = ExistingGuestTeams(c.db, UniqueGuestNames(event_data))],
            SortedNames(UniqueGuestNames(event_data)
                        \ {x.name : x \in ExistingGuestTeams(c.db, UniqueGuestNames(event_data))}))

\* a score_dict in which the earlier entry with a key stays
FirstScoreDict(teams) ==
    {[team_id |-> teams[i].team_id, name |-> teams[i].name, score |-> teams[i].score] :
        i \in {j \in 1..Len(teams) :
                ~\E k \in 1..(j - 1) :
                    teams[k].team_id = teams[j].team_id /\ teams[k].name = teams[j].name}}

\* the dict comprehension of step 10: a later entry with the same key replaces an earlier one
ScoreDict(teams) ==
    {[team_id |-> teams[i].team_id, name |-> teams[i].name, score |-> teams[i].score] :
        i \in {j \in 1..Len(teams) :
                ~\E k \in (j + 1)..Len(teams) :
                    teams[k].team_id = teams[j].team_id /\ teams[k].name = teams[j].name}}

\* score_dict[(tep.team.team_id, tep.team_name.name)]
ScoreOf(d, score_dict, tep) ==
    {s.score : s \in {x \in score_dict :
        /\ x.team_id = The({t.team_id : t \in {y \in d.teams : y.pk = tep.team}})
        /\ x.name = tep.team_name}}

\* the TEPs attached to the placeholder by hand, which have no score yet
TepsToUpdate(d, updated_event_pk) ==
    {t \in d.teps : Some(t.event) = updated_event_pk /\ t.score = None}

\* a loop that gives the TEPs it can match their score and skips the others
SkipsUnmatched(c, teps_to_update, score_dict) ==
    [c EXCEPT !.db.teps =
        {IF t \in teps_to_update /\ ScoreOf(c.db, score_dict, t) # {}
         THEN [t EXCEPT !.score = ScoreOf(c.db, score_dict, t)] ELSE t : t \in @}]

\* the loop of step 10: each TEP gets its score, or the call raises
Backfill(c, teps_to_update, score_dict) ==
    IF \E t \in teps_to_update : ScoreOf(c.db, score_dict, t) = {}
    THEN Raised(c, "autoscrape_teps")
    ELSE [c EXCEPT !.db.teps = (@ \ teps_to_update) \cup
                {[t EXCEPT !.score = ScoreOf(c.db, score_dict, t)] : t \in teps_to_update}]

\* step 10: scores for the TEPs that were attached to the placeholder by hand
_process_autoscrape_teps(c, is_manual) ==
    IF c.raised THEN c
    ELSE IF is_manual \/ c.updated_event_data = None THEN c
    ELSE Backfill(c, TepsToUpdate(c.db, c.updated_event_pk),
                  ScoreDict(The(c.updated_event_data).teams))

\* events[(game pk, date)] for a scraped event
EventId(c, e) ==
    {x.pk : x \in {y \in c.events :
                    Some(y.game) = MatchEvent(The(c.games), e).game /\ y.date = e.date}}

\* teams[team_id] or guest_teams[name] for a scraped team
TeamPk(c, t) ==
    IF t.team_id # None
    THEN {x.pk : x \in {y \in c.teams : Some(y.team_id) = t.team_id}}
    ELSE {x.pk : x \in {y \in c.guest_teams : y.name = t.name}}

\* the entries of one scraped event
EntriesOf(c, e) ==
    [i \in 1..Len(e.teams) |->
        [team |-> TeamPk(c, e.teams[i]), team_name |-> e.teams[i].name,
         event |-> EventId(c, e), score |-> e.teams[i].score]]

RECURSIVE TepEntries(_, _)
\* every scraped (event, team) entry in scrape order, as the TEP it would become
TepEntries(c, event_data) ==
    IF event_data = <<>> THEN <<>>
    ELSE EntriesOf(c, Head(event_data)) \o TepEntries(c, Tail(event_data))

\* a comparison under which the later of two tied entries replaces the earlier
ReplacesOnTie(new_score, old_score) == new_score >= old_score

\* the comparison that keeps an entry of unique_teps or replaces it
ReplacesTep(new_score, old_score) == new_score > old_score

RECURSIVE UniqueTeps(_, _)
\* unique_teps: for each (team, event) the entry with the highest score
UniqueTeps(acc, entries) ==
    IF entries = <<>> THEN acc
    ELSE IF \E t \in acc : /\ t.team = Head(entries).team /\ t.event = Head(entries).event
                           /\ ~ReplacesTep(Head(entries).score, t.score)
         THEN UniqueTeps(acc, Tail(entries))
         ELSE UniqueTeps({t \in acc : ~(t.team = Head(entries).team
                                        /\ t.event = Head(entries).event)}
                            \cup {Head(entries)},
                         Tail(entries))

\* a lookup that gives the first name the team owns, whatever name was scraped
FirstNameOf(d, team, name) ==
    {Head(SortedNames({n.name : n \in {x \in d.team_names : x.team = team}}))}

\* team_names[(_team, team.name)]: the TeamName row of that team with that name
TeamNameOf(d, team, name) ==
    {n.name : n \in {x \in d.team_names : x.team = team /\ x.name = name}}

\* the entries that are put into unique_teps when their turn comes
Placed(entries, i) ==
    \A j \in 1..(i - 1) :
        (entries[j].team = entries[i].team /\ entries[j].event = entries[i].event)
            => ReplacesTep(entries[i].score, entries[j].score)

\* step 11 had it read events[...] only inside the loop over the teams of an event:
\* an event without teams asks for no entry of events
EventReadPerTeam(c, event_data, entries) ==
    \/ \E i \in 1..Len(entries) : entries[i].event = None
    \/ \E i \in 1..Len(entries) : entries[i].team = None
    \/ \E i \in 1..Len(entries) :
          /\ Placed(entries, i)
          /\ TeamNameOf(c.db, The(entries[i].team), entries[i].team_name) = None

\* a lookup of step 11 that has no entry: events[...] is read for every event, teams
\* or not; teams[...] and guest_teams[...] for every entry; team_names[...] for the
\* entries that are put into unique_teps
TepKeyError(c, event_data, entries) ==
    \/ \E e \in Range(event_data) : EventId(c, e) = {}
    \/ \E i \in 1..Len(entries) : entries[i].team = None
    \/ \E i \in 1..Len(entries) :
          /\ Placed(entries, i)
          /\ TeamNameOf(c.db, The(entries[i].team), entries[i].team_name) = None

\* TeamEventParticipation.objects.bulk_create(..., ignore_conflicts=True)
InsertTeps(c, unique_teps) ==
    [c EXCEPT !.db.teps = @ \cup
        {r \in {[team |-> The(x.team),
                 team_name |-> The(TeamNameOf(c.db, The(x.team), x.team_name)),
                 event |-> The(x.event), score |-> Some(x.score)] : x \in unique_teps} :
            ~\E t \in c.db.teps : t.team = r.team /\ t.event = r.event}]

\* step 11: one TEP per (team, event), inserted unless the pair has one
_process_team_event_participations(c, event_data) ==
    IF c.raised THEN c
    ELSE IF TepKeyError(c, event_data, TepEntries(c, event_data)) THEN Raised(c, "teps")
    ELSE InsertTeps(c, UniqueTeps({}, TepEntries(c, event_data)))

----------------------------------------------------------------------------
(* push_to_db: the eleven steps inside transaction.atomic() *)

\* the body of the with-block
Transaction(d, source_url, is_manual, data, autoscrape_game_id, now, localdate) ==
    _process_team_event_participations(
     _process_autoscrape_teps(
      _process_guest_teams(
       _process_official_teams(
        _process_events(
         _process_autoscrape_event(
          _process_quizmasters(
           sync(
            _process_games(
             _process_game_types(
              _create_or_update_venue(Block(d), source_url, data.venue_data.name, now),
              data),
             data, source_url)),
           data.event_data),
          data.event_data, is_manual, autoscrape_game_id, now, localdate),
         data.event_data),
        data.event_data),
       data.event_data),
      is_manual),
     data.event_data)

\* a block without a transaction: what was written stays written
NoRollback(before, t) == t.db

\* transaction.atomic(): the writes of a block that raised are undone
Atomic(before, t) == IF t.raised THEN before ELSE t.db

\* what push_to_db leaves and returns once the block has ended
Outcome(before, t) ==
    [ret |-> IF t.raised THEN "raised" ELSE "True", at |-> t.at,
     db |-> Atomic(before, t), games |-> t.games,
     updated_event_pk |-> IF t.raised THEN None ELSE t.updated_event_pk]

\* a push_to_db without the early return: the block runs on an empty event list too
PushWithoutEarlyReturn(d, source_url, is_manual, data, autoscrape_game_id, now, localdate) ==
    Outcome(d, Transaction(d, source_url, is_manual, data, autoscrape_game_id,
                           now, localdate))

\* push_to_db: ret is "False" (nothing to do), "True" or "raised"
push_to_db(d, source_url, is_manual, data, autoscrape_game_id, now, localdate) ==
    IF data.event_data = <<>> /\ ~is_manual
    THEN [ret |-> "False", at |-> "", db |-> d, games |-> None, updated_event_pk |-> None]
    ELSE Outcome(d, Transaction(d, source_url, is_manual, data, autoscrape_game_id,
                                now, localdate))

----------------------------------------------------------------------------
(* The extractor and the cutoff: trivia_scraper.py, ScraperService.scrape_data *)

RECURSIVE TakeNewer(_, _)
\* _extract_data: recaps are read newest first and reading stops at the first one
\* dated at or before break_flag
TakeNewer(recaps, break_flag) ==
    IF recaps = <<>> THEN <<>>
    ELSE IF break_flag # None /\ Head(recaps).date <= The(break_flag) THEN <<>>
    ELSE <<Head(recaps)>> \o TakeNewer(Tail(recaps), break_flag)

\* TriviaScraper.scrape on the page as it is now (site.recaps is oldest first)
scrape(page, break_flag) ==
    PageData(page.name, page.games, TakeNewer(Reverse(page.recaps), break_flag))

MaxOf(S) == CHOOSE x \in S : \A y \in S : y <= x

\* the end_date argument of scrape_data: a date object, a string (its characters),
\* None, or a value of another type
DateObject(day) == [kind |-> "date", date |-> day, text |-> <<>>]
Text(chars) == [kind |-> "str", date |-> 0, text |-> chars]
NoEndDate == [kind |-> "none", date |-> 0, text |-> <<>>]
OtherValue == [kind |-> "other", date |-> 0, text |-> <<>>]

Digits == <<"0", "1", "2", "3", "4", "5", "6", "7", "8", "9">>

RECURSIVE DigitsValue(_, _, _)
\* int(text[lo..hi]) when these characters are ASCII digits, else -1
DigitsValue(text, lo, hi) ==
    IF hi < lo THEN 0
    ELSE IF text[hi] \notin Range(Digits) \/ DigitsValue(text, lo, hi - 1) < 0 THEN -1
         ELSE 10 * DigitsValue(text, lo, hi - 1)
                + (CHOOSE i \in 1..10 : Digits[i] = text[hi]) - 1

\* calendar.monthrange: the days of month m of year y
DaysInMonth(y, m) ==
    IF m = 2 THEN (IF y % 4 = 0 /\ (y % 100 # 0 \/ y % 400 = 0) THEN 29 ELSE 28)
    ELSE IF m \in {4, 6, 9, 11} THEN 30 ELSE 31

RECURSIVE DaysBeforeMonth(_, _)
DaysBeforeMonth(y, m) ==
    IF m = 1 THEN 0 ELSE DaysBeforeMonth(y, m - 1) + DaysInMonth(y, m - 1)

\* date(y, m, d).toordinal(): day 1 is 0001-01-01
ToOrdinal(y, m, d) ==
    (y - 1) * 365 + (y - 1) \div 4 - (y - 1) \div 100 + (y - 1) \div 400
        + DaysBeforeMonth(y, m) + d

\* date.fromisoformat on a string without the letter W, of a length other than 7 and 8:
\* "YYYY-MM-DD" with a year from 1, a month of the year and a day of the month, else
\* ValueError; the date is the day number counted from 1970-01-01
fromisoformat(text) ==
    LET y == DigitsValue(text, 1, 4)
        m == DigitsValue(text, 6, 7)
        dd == DigitsValue(text, 9, 10)
    IN IF /\ Len(text) = 10 /\ text[5] = "-" /\ text[8] = "-"
          /\ y >= 1 /\ m \in 1..12 /\ dd >= 1 /\ dd <= DaysInMonth(y, m)
       THEN [err |-> FALSE, date |-> Some(ToOrdinal(y, m, dd) - ToOrdinal(1970, 1, 1))]
       ELSE [err |-> TRUE, date |-> None]

\* a cutoff taken from the latest Event of any venue
LatestOfAnyVenue(d, source_url, end_date) ==
    IF end_date.kind = "date" THEN [err |-> FALSE, date |-> Some(end_date.date)]
    ELSE IF end_date.kind = "str" THEN fromisoformat(end_date.text)
    ELSE IF end_date.kind = "none"
         THEN [err |-> FALSE,
               date |-> IF d.events = {} THEN None
                        ELSE Some(MaxOf({e.date : e \in d.events}))]
         ELSE [err |-> TRUE, date |-> None]

\* _process_end_date: a date object as it is, a string parsed, None the date of the
\* latest Event of the venue if it has one; err when ValueError is raised
_process_end_date(d, source_url, end_date) ==
    IF end_date.kind = "date" THEN [err |-> FALSE, date |-> Some(end_date.date)]
    ELSE IF end_date.kind = "str" THEN fromisoformat(end_date.text)
    ELSE IF end_date.kind = "none"
         THEN [err |-> FALSE,
               date |-> IF {x \in d.events : x.game.venue = source_url} = {} THEN None
                        ELSE Some(MaxOf({e.date : e \in {x \in d.events :
                                                            x.game.venue = source_url}}))]
         ELSE [err |-> TRUE, date |-> None]

----------------------------------------------------------------------------
(* Operations *)

PushOps == {"scrape", "scrape_full", "auto_scrape"}

\* end_date is the cutoff the page was read with, ret what the operation returned,
\* at the step that raised, resolved the pk of the placeholder that was filled in
Record(op, game, end_date, ret, at, resolved) ==
    [op |-> op, game |-> game, end_date |-> end_date, ret |-> ret, at |-> at,
     resolved |-> resolved,
     \* push_to_db is called with the input of the call in the step before: the page
     \* has not changed since, and it is read with the same cutoff for the same target
     repeat |-> /\ op \in PushOps /\ last.op \in PushOps
                /\ (op = "auto_scrape") = (last.op = "auto_scrape")
                /\ last.game = game /\ last.end_date = end_date]

\* a step of the environment
Idle(op) == Record(op, None, None, "None", "", None)

\* VenueAdmin._scrape_venue: any exception becomes a message to the operator
ScrapeVenue(op, end_date) ==
    /\ clock = "day"
    /\ \E v \in db.venues : v.url = Url
    /\ \E r \in {push_to_db(db, Url, TRUE, scrape(site, end_date), None, today, today)} :
          /\ db' = r.db
          /\ self_games' = r.games
          /\ last' = Record(op, None, end_date, r.ret, r.at, r.updated_event_pk)
    /\ UNCHANGED <<site, today, clock, fired, probe, pending>>

\* admin action "Scrape new data for selected venues"
AdminScrape == ScrapeVenue("scrape", _process_end_date(db, Url, NoEndDate).date)

\* "1970-01-01"
EpochText == <<"1", "9", "7", "0", "-", "0", "1", "-", "0", "1">>

\* admin action "Force full re-scrape for selected venues"
AdminScrapeFull == ScrapeVenue("scrape_full", _process_end_date(db, Url, Text(EpochText)).date)

\* celery beat fires a task on the day of the week of its crontab (0 = Sunday)
Due(task) == task.enabled /\ task.crontab.day_of_week = (Weekday(today) + 1) % 7

Tasks(kind) == {t \in db.periodic_tasks : t.task = kind}

\* an Event of the game dated the day before
DatedYesterday(d, game_pk, localdate) ==
    [pk |-> d.event_seq + 1, game |-> game_pk, date |-> localdate - 1,
     end_datetime |-> None, description |-> None, quizmaster |-> None, theme |-> None]

\* Event(game_id=game_pk, date=timezone.localdate()): the other fields are null
PlaceholderRow(d, game_pk, localdate) ==
    [pk |-> d.event_seq + 1, game |-> game_pk, date |-> localdate,
     end_datetime |-> None, description |-> None, quizmaster |-> None, theme |-> None]

\* Event.objects.create: IntegrityError when the (game, date) of the row is taken
CreateEvent(d, row) ==
    IF \E e \in d.events : e.game = row.game /\ e.date = row.date
    THEN [err |-> TRUE, db |-> d]
    ELSE [err |-> FALSE, db |-> [d EXCEPT !.events = @ \cup {row}, !.event_seq = @ + 1]]

\* tasks.generate_placeholder_event
GeneratePlaceholder(t) ==
    /\ clock = "day"
    /\ Due(t)
    /\ \E r \in {CreateEvent(db, PlaceholderRow(db, t.game_pk, today))} :
          /\ db' = r.db
          /\ last' = Record("generate_placeholder_event", Some(t.game_pk), None,
                            IF r.err THEN "raised" ELSE "None", "", None)
    /\ UNCHANGED <<site, today, clock, fired, self_games, probe, pending>>

\* PeriodicTask.objects.filter(name=task_name).update(enabled=flag)
SetEnabled(d, task_name, flag) ==
    [d EXCEPT !.periodic_tasks =
        {IF t.name = task_name THEN [t EXCEPT !.enabled = flag] ELSE t : t \in @}]

\* an auto_scrape that goes on to disable itself when push_to_db returned false
DisablesOnFalse(ret) == ret = "False"

\* an auto_scrape that swallows a failure and goes on to disable itself
DisablesUnlessFalse(ret) == ret # "False"

\* the test of auto_scrape on what push_to_db returned: TRUE when the task goes on
\* to disable itself
DisablesItself(ret) == ret = "True"

\* the cutoff of auto_scrape: the date of the venue's latest Event that has a
\* quizmaster, or yesterday when it has none
AutoScrapeEndDate(d, game_pk, localdate) ==
    LET quizmastered == {e.date : e \in {x \in d.events :
                            x.game.venue = game_pk.venue /\ x.quizmaster # None}}
    IN IF quizmastered # {} THEN MaxOf(quizmastered) ELSE localdate - 1

\* tasks.auto_scrape
AutoScrape(t) ==
    /\ clock = "day"
    /\ Due(t)
    /\ \E r \in {push_to_db(db, t.game_pk.venue, FALSE,
                              scrape(site, Some(AutoScrapeEndDate(db, t.game_pk, today))),
                              Some(t.game_pk), today, today)} :
          /\ db' = IF DisablesItself(r.ret) THEN SetEnabled(r.db, t.name, FALSE) ELSE r.db
          /\ self_games' = r.games
          /\ last' = Record("auto_scrape", Some(t.game_pk),
                            Some(AutoScrapeEndDate(db, t.game_pk, today)), r.ret, r.at,
                            r.updated_event_pk)
    /\ UNCHANGED <<site, today, clock, fired, probe, pending>>

\* tasks.auto_scrape when scrape_data raises (the page cannot be fetched or read):
\* the exception leaves the task before push_to_db is called
AutoScrapeFails(t) ==
    /\ clock = "day"
    /\ Due(t)
    /\ db' = IF DisablesItself("raised") THEN SetEnabled(db, t.name, FALSE) ELSE db
    /\ last' = Record("auto_scrape", Some(t.game_pk),
                      Some(AutoScrapeEndDate(db, t.game_pk, today)), "raised", "scrape_data",
                      None)
    /\ UNCHANGED <<site, today, clock, fired, self_games, probe, pending>>

\* Two ticks of auto_scrape may overlap. A tick first reads: it takes its cutoff from
\* the store and scrapes the page. Then it writes: push_to_db and, on true, the update
\* of its PeriodicTask. The first write of push_to_db is the UPDATE of the venue row
\* (last_scraped_at), so of two transactions on one venue the second waits there
\* until the first has ended, and then reads what the first has committed: the
\* writes of two ticks do not interleave, their reads and writes do.

\* tasks.auto_scrape up to and including scrape_data
AutoScrapeReads(t) ==
    /\ clock = "day"
    /\ Due(t)
    /\ Cardinality(pending) < MaxTicks
    /\ pending' = pending \cup
            {[tick |-> MinOf((1..MaxTicks) \ {p.tick : p \in pending}), task |-> t,
              end_date |-> AutoScrapeEndDate(db, t.game_pk, today),
              data |-> scrape(site, Some(AutoScrapeEndDate(db, t.game_pk, today)))]}
    /\ last' = Record("scrape_data", Some(t.game_pk),
                      Some(AutoScrapeEndDate(db, t.game_pk, today)), "None", "", None)
    /\ UNCHANGED <<db, site, today, clock, fired, self_games, probe>>

\* tasks.auto_scrape from push_to_db on, with the page as the tick has read it
AutoScrapeWrites(p) ==
    /\ clock = "day"
    /\ \E r \in {push_to_db(db, p.task.game_pk.venue, FALSE, p.data,
                              Some(p.task.game_pk), today, today)} :
          /\ db' = IF DisablesItself(r.ret) THEN SetEnabled(r.db, p.task.name, FALSE)
                   ELSE r.db
          /\ self_games' = r.games
          /\ last' = Record("auto_scrape", Some(p.task.game_pk), Some(p.end_date), r.ret,
                            r.at, r.updated_event_pk)
    /\ pending' = pending \ {p}
    /\ UNCHANGED <<site, today, clock, fired, probe>>

\* the rows reenable_scraping takes for the orphaned placeholder
OrphanedEvents(d, game_pk, yesterday) ==
    {e \in d.events : e.game = game_pk /\ e.date = yesterday}

\* Event.delete(): the TEPs of the event go with it (on_delete=CASCADE)
DeleteEvent(d, e) ==
    [d EXCEPT !.events = @ \ {e}, !.teps = {t \in @ : t.event # e.pk}]

\* tasks.reenable_scraping, fired once at 00:00
ReenableScraping(t) ==
    /\ clock = "midnight"
    /\ Due(t)
    /\ t.game_pk \notin fired
    /\ LET orphaned == OrphanedEvents(db, t.game_pk, today - 1)
           task_name == [t.name EXCEPT !.suffix = "Auto scrape"]
       IN /\ db' = IF orphaned # {} THEN DeleteEvent(db, The(orphaned))
                   ELSE SetEnabled(db, task_name, TRUE)
          /\ last' = Record("reenable_scraping", Some(t.game_pk), None,
                            IF orphaned # {} THEN "deleted" ELSE "enabled", "", None)
    /\ fired' = fired \cup {t.game_pk}
    /\ UNCHANGED <<site, today, clock, self_games, probe, pending>>

\* BatchAttendanceView.form_valid: a TEP without a score, named by team.names.first()
BatchAttendance(event, team) ==
    /\ clock = "day"
    /\ LET names == SortedNames({n.name : n \in {x \in db.team_names : x.team = team.pk}})
           taken == \E p \in db.teps : p.team = team.pk /\ p.event = event.pk
           ok == names # <<>> /\ ~taken
           row == [team |-> team.pk, team_name |-> Head(names), event |-> event.pk,
                   score |-> None]
       IN /\ db' = IF ok THEN [db EXCEPT !.teps = @ \cup {row}] ELSE db
          /\ last' = Record("batch_attendance", Some(event.game), None,
                            IF ok THEN "None" ELSE "raised", "", None)
    /\ UNCHANGED <<site, today, clock, fired, self_games, probe, pending>>

----------------------------------------------------------------------------
(* The environment: the venue's page and the calendar *)

\* PUB QUIZ on Wednesdays (weekday 2) at 19:00; the same at 19:30; BINGO at 21:30
G1 == GameData("PUB", 2, TimeOfDay(19, 0))
G1b == GameData("PUB", 2, TimeOfDay(19, 30))
GLate == GameData("BINGO", 2, TimeOfDay(21, 30))

GameLists == {<<G1>>, <<G1, G1b>>, <<G1, GLate>>}

TeamEntries(ids, names, scores) ==
    {TeamData(id, n, sc) : id \in ids, n \in names, sc \in scores}

RECURSIVE SeqsUpTo(_, _)
\* the sequences over S of length at most n
SeqsUpTo(S, n) ==
    IF n = 0 THEN {<<>>}
    ELSE LET shorter == SeqsUpTo(S, n - 1)
         IN shorter \cup {Append(q, x) : q \in {r \in shorter : Len(r) = n - 1}, x \in S}

\* the recaps a page may show for a game played on date d
Recaps(d, types, team_lists) ==
    {EventData(d, t, q, Some("recap"), tl) : t \in types, q \in Quizmasters, tl \in team_lists}

TeamLists == SeqsUpTo(TeamEntries({None, Some(42)}, {"A"}, {50}), MaxTeams)

\* the venue posts the recap of a game played today
PostRecap(recaps) ==
    /\ clock = "day"
    /\ Len(site.recaps) < MaxRecaps
    /\ \E r \in recaps : site' = [site EXCEPT !.recaps = Append(@, r)]
    /\ last' = Idle("post_recap")
    /\ UNCHANGED <<db, today, clock, fired, self_games, probe, pending>>

\* the calendar moves on one day, up to the last day of the model
AdvanceTo(last_day) ==
    /\ clock = "day"
    /\ today < last_day
    /\ today' = today + 1
    /\ clock' = "midnight"
    /\ fired' = {}
    /\ last' = Idle("advance_day")
    /\ UNCHANGED <<db, site, self_games, probe, pending>>

AdvanceDay == AdvanceTo(MaxDate)

\* 00:00 is over: celery beat has fired the jobs whose crontab says 00:00 today
PassMidnight ==
    /\ clock = "midnight"
    /\ \A t \in Tasks("reenable_scraping") : Due(t) => t.game_pk \in fired
    /\ clock' = "day"
    /\ last' = Idle("pass_midnight")
    /\ UNCHANGED <<db, site, today, fired, self_games, probe, pending>>

\* the venue was added in the admin with its URL; nothing has been scraped
InitDb == [EmptyDb EXCEPT !.venues = {[url |-> Url, name |-> "", last_scraped_at |-> None]}]

\* the page may already show the recap of a special event held the day before
Old == EventData(1, "BINGO", "q1", Some("recap"), <<TeamData(Some(42), "A", 50)>>)

NoProbe == [game_type |-> "", day |-> 0, called |-> FALSE, err |-> FALSE, game |-> None]

InitWith(game_lists, recap_lists) ==
    /\ db = InitDb
    /\ site \in {[name |-> VenueName, games |-> gl, recaps |-> rl] :
                    gl \in game_lists, rl \in recap_lists}
    /\ today = 2
    /\ clock = "day"
    /\ fired = {}
    /\ self_games = None
    /\ last = [op |-> "init", game |-> None, end_date |-> None, ret |-> "None", at |-> "",
               resolved |-> None, repeat |-> FALSE]
    /\ pending = {}
    /\ probe = NoProbe

Init == InitWith(GameLists, {<<>>, <<Old>>})

Jobs ==
    \/ \E t \in Tasks("generate_placeholder_event") : GeneratePlaceholder(t)
    \/ \E t \in Tasks("auto_scrape") : AutoScrape(t)
    \/ \E t \in Tasks("auto_scrape") : AutoScrapeFails(t)
    \/ \E t \in Tasks("reenable_scraping") : ReenableScraping(t)

Admin ==
    \/ AdminScrape
    \/ AdminScrapeFull
    \/ \E e \in {x \in db.events : x.date = today}, t \in db.teams : BatchAttendance(e, t)

Next ==
    \/ Admin
    \/ Jobs
    \/ PostRecap(Recaps(today, Types, TeamLists))
    \/ AdvanceDay
    \/ PassMidnight

Spec == Init /\ [][Next]_vars

----------------------------------------------------------------------------
(* One game night with richer score sheets: a team may appear more than once *)
(* in a recap, under either of its names and with either score.              *)

MaxEntries == 2

ScoreSheets == SeqsUpTo(TeamEntries({None, Some(42)}, Names, Scores), MaxEntries)

InitTeams == InitWith({<<G1>>}, {<<Old>>})

NextTeams ==
    \/ AdminScrapeFull
    \/ \E t \in Tasks("generate_placeholder_event") : GeneratePlaceholder(t)
    \/ \E t \in Tasks("auto_scrape") : AutoScrape(t)
    \/ \E e \in {x \in db.events : x.date = today}, t \in db.teams : BatchAttendance(e, t)
    \/ PostRecap(Recaps(today, {"PUB"}, ScoreSheets))

SpecTeams == InitTeams /\ [][NextTeams]_vars

----------------------------------------------------------------------------
(* One game night on which ticks of auto_scrape overlap *)

InitOverlap == InitWith({<<G1>>}, {<<Old>>})

NextOverlap ==
    \/ AdminScrape
    \/ \E t \in Tasks("generate_placeholder_event") : GeneratePlaceholder(t)
    \/ \E t \in Tasks("auto_scrape") : AutoScrapeReads(t)
    \/ \E p \in pending : AutoScrapeWrites(p)
    \/ \E e \in {x \in db.events : x.date = today}, t \in db.teams : BatchAttendance(e, t)
    \/ PostRecap(Recaps(today, {"PUB"}, TeamLists))

SpecOverlap == InitOverlap /\ [][NextOverlap]_vars

----------------------------------------------------------------------------
(* One game slot over a week: from the game night to the next one *)

MaxWeekDate == 9

InitWeek == InitWith({<<G1>>}, {<<>>})

NextWeek ==
    \/ AdminScrape
    \/ \E t \in Tasks("generate_placeholder_event") : GeneratePlaceholder(t)
    \/ \E t \in Tasks("auto_scrape") : AutoScrape(t)
    \/ \E t \in Tasks("reenable_scraping") : ReenableScraping(t)
    \/ PostRecap(Recaps(today, {"PUB"}, {<<>>}))
    \/ AdvanceTo(MaxWeekDate)
    \/ PassMidnight

SpecWeek == InitWeek /\ [][NextWeek]_vars

\* the same week on a page that already shows the recap of an earlier special night
InitBacklog == InitWith({<<G1>>}, {<<Old>>})

SpecBacklog == InitBacklog /\ [][NextWeek]_vars

----------------------------------------------------------------------------
(* _match_game_to_event called directly on a lookup, as its unit tests do *)

ProbeDays == {2, 3, 4}

\* one candidate Game per key (type name, day) of a lookup
CandidateGames ==
    {CustomGame(t, Url) : t \in Types}
        \cup {OfficialGame(GameData(t, d, TimeOfDay(19, 0)), Url) : t \in Types, d \in {2, 3}}

InitMatch ==
    /\ db = InitDb
    /\ site = [name |-> VenueName, games |-> <<>>, recaps |-> <<>>]
    /\ today = 2
    /\ clock = "day"
    /\ fired = {}
    /\ self_games \in {Some(lookup) : lookup \in SUBSET CandidateGames}
    /\ last = [op |-> "init", game |-> None, end_date |-> None, ret |-> "None", at |-> "",
               resolved |-> None, repeat |-> FALSE]
    /\ pending = {}
    /\ probe \in {[NoProbe EXCEPT !.game_type = t, !.day = d] : t \in Types, d \in ProbeDays}

\* service._match_game_to_event(probe.game_type, probe.day)
MatchGame ==
    /\ ~probe.called
    /\ self_games # None
    /\ \E r \in {_match_game_to_event(The(self_games), probe.game_type, probe.day)} :
          probe' = [probe EXCEPT !.called = TRUE, !.err = r.err, !.game = r.game]
    /\ UNCHANGED <<db, site, today, clock, fired, self_games, last, pending>>

SpecMatch == InitMatch /\ [][MatchGame]_vars

----------------------------------------------------------------------------
(* One service object on which push_to_db is called more than once: each call sets *)
(* self.games (push_to_db, step 3) and then matches events through the lru_cache   *)

MaxCalls == 2

\* the lookups of the calls: the PUB games of CandidateGames
PubLookups == SUBSET {g \in CandidateGames : g.type = "PUB"}

InitMemo ==
    /\ db = InitDb
    /\ site = [name |-> VenueName, games |-> <<>>, recaps |-> <<>>]
    /\ today = 2
    /\ clock = "day"
    /\ fired = {}
    /\ self_games \in {Some(lookup) : lookup \in PubLookups}
    /\ last = [op |-> "init", game |-> None, end_date |-> None, ret |-> "None", at |-> "",
               resolved |-> None, repeat |-> FALSE]
    /\ pending = {}
    /\ probe = [cache |-> {}, calls |-> 1, called |-> FALSE, game_type |-> "", day |-> 0,
                err |-> FALSE, game |-> None]

\* self._match_game_to_event(game_type=..., day=...) inside a call of push_to_db
MatchThroughCache ==
    /\ \E day \in ProbeDays :
          \E r \in {CachedMatch(probe.cache, The(self_games), "PUB", day)} :
             probe' = [probe EXCEPT !.cache = r.cache, !.called = TRUE, !.game_type = "PUB",
                                    !.day = day, !.err = r.err, !.game = r.game]
    /\ UNCHANGED <<db, site, today, clock, fired, self_games, last, pending>>

\* the next call of push_to_db on the same object: self.games = self._process_games(...)
NextCall ==
    /\ probe.calls < MaxCalls
    /\ \E lookup \in PubLookups : self_games' = Some(lookup)
    /\ probe' = [probe EXCEPT !.calls = @ + 1, !.called = FALSE]
    /\ UNCHANGED <<db, site, today, clock, fired, last, pending>>

NextMemo ==
    \/ MatchThroughCache
    \/ NextCall

SpecMemo == InitMemo /\ [][NextMemo]_vars

----------------------------------------------------------------------------
(* _generate_crontab_hours called directly on a time of day, as its unit tests do *)

\* datetime.time: every minute of the day
TimesOfDay == {TimeOfDay(h, m) : h \in 0..23, m \in 0..59}

InitHours ==
    /\ db = InitDb
    /\ site = [name |-> VenueName, games |-> <<>>, recaps |-> <<>>]
    /\ today = 2
    /\ clock = "day"
    /\ fired = {}
    /\ self_games = None
    /\ last = [op |-> "init", game |-> None, end_date |-> None, ret |-> "None", at |-> "",
               resolved |-> None, repeat |-> FALSE]
    /\ pending = {}
    /\ probe \in {[game_time |-> t, called |-> FALSE, err |-> FALSE, hours |-> ""] :
                    t \in TimesOfDay}

\* _generate_crontab_hours(game_time=probe.game_time)
CrontabHours ==
    /\ ~probe.called
    /\ \E r \in {_generate_crontab_hours(probe.game_time)} :
          probe' = [probe EXCEPT !.called = TRUE, !.err = r.err, !.hours = r.hours]
    /\ UNCHANGED <<db, site, today, clock, fired, self_games, last, pending>>

SpecHours == InitHours /\ [][CrontabHours]_vars

----------------------------------------------------------------------------
(* sync on every game a venue can list: one game a page, any weekday, any minute *)

WeekDays == 0..6

InitSync == InitWith({<<GameData("PUB", d, t)>> : d \in WeekDays, t \in TimesOfDay}, {<<>>})

SpecSync == InitSync /\ [][AdminScrape]_vars

----------------------------------------------------------------------------
(* push_to_db called by hand on a store without rows: one listed game, one recap *)

\* Mondays
Mondays == {7 * k : k \in 1..5}

StartTimes == {TimeOfDay(18, 0), TimeOfDay(19, 0), TimeOfDay(19, 30), TimeOfDay(20, 0),
               TimeOfDay(21, 0)}

\* the score sheet of the night: official team 42 and the guests "Walkers"
Sheet == {<<TeamData(Some(42), "A", 80), TeamData(None, "Walkers", 65)>>,
          <<TeamData(None, "Walkers", 65), TeamData(Some(42), "A", 80)>>}

InitEndToEnd ==
    /\ db = EmptyDb
    /\ site \in {[name |-> VenueName, games |-> <<GameData("PUB QUIZ", 0, tm)>>,
                   recaps |-> <<EventData(d, "PUB QUIZ", "q1", desc, sheet)>>] :
                    tm \in StartTimes, d \in Mondays, desc \in {None, Some("recap")},
                    sheet \in Sheet}
    /\ today = 36
    /\ clock = "day"
    /\ fired = {}
    /\ self_games = None
    /\ last = [op |-> "init", game |-> None, end_date |-> None, ret |-> "None", at |-> "",
               resolved |-> None, repeat |-> FALSE]
    /\ pending = {}
    /\ probe = NoProbe

\* ScraperService().scrape_data(url, None) followed by push_to_db(data)
ManualReconcile ==
    /\ last.op = "init"
    /\ \E r \in {push_to_db(db, Url, TRUE, scrape(site, _process_end_date(db, Url, NoEndDate).date), None,
                              today, today)} :
          /\ db' = r.db
          /\ self_games' = r.games
          /\ last' = Record("push_to_db", None, _process_end_date(db, Url, NoEndDate).date, r.ret, r.at,
                            r.updated_event_pk)
    /\ UNCHANGED <<site, today, clock, fired, probe, pending>>

SpecEndToEnd == InitEndToEnd /\ [][ManualReconcile]_vars

----------------------------------------------------------------------------
(* _process_end_date called directly, as its unit tests do, on a store with the *)
(* Events of two venues, and the two admin actions on that store                *)

OtherUrl == "u2"

\* an Event of the venue's special nights, with its recap
StoredEvent(k, venue, day) ==
    [pk |-> k, game |-> CustomGame("PUB", venue), date |-> day, end_datetime |-> None,
     description |-> Some("recap"), quizmaster |-> Some("q1"), theme |-> None]

\* the Events the store may hold: one per venue and day
StoredEvents ==
    {StoredEvent(day, Url, day) : day \in 1..MaxDate}
        \cup {StoredEvent(MaxDate + day, OtherUrl, day) : day \in 1..MaxDate}

\* date strings with the day they name, counted from 1970-01-01
DateTexts ==
    {<<<<"1", "9", "7", "0", "-", "0", "1", "-", "0", "1">>, 0>>,
     <<<<"1", "9", "7", "0", "-", "0", "1", "-", "0", "3">>, 2>>,
     <<<<"1", "9", "7", "0", "-", "0", "3", "-", "0", "1">>, 59>>,
     <<<<"1", "9", "7", "2", "-", "0", "2", "-", "2", "9">>, 789>>,
     <<<<"1", "9", "6", "9", "-", "1", "2", "-", "3", "1">>, -1>>,
     <<<<"2", "0", "0", "1", "-", "0", "9", "-", "1", "1">>, 11576>>}

\* strings that date.fromisoformat rejects
BadTexts ==
    {<<"B", "l", "a", "h">>,
     <<>>,
     <<"1", "9", "7", "0", "-", "0", "1", "-", "1">>,
     <<"1", "9", "7", "0", "-", "1", "3", "-", "0", "1">>,
     <<"1", "9", "7", "0", "-", "0", "2", "-", "2", "9">>,
     <<"0", "0", "0", "0", "-", "0", "1", "-", "0", "1">>,
     <<"1", "9", "7", "0", "/", "0", "1", "/", "0", "1">>}

EndDates ==
    {NoEndDate, OtherValue} \cup {DateObject(day) : day \in 0..MaxDate}
        \cup {Text(t[1]) : t \in DateTexts} \cup {Text(t) : t \in BadTexts}

InitEndDate ==
    /\ db \in {[EmptyDb EXCEPT
                    !.venues = {[url |-> u, name |-> VenueName, last_scraped_at |-> None] :
                                    u \in {Url, OtherUrl}},
                    !.game_types = {"PUB"},
                    !.games = {CustomGame("PUB", Url), CustomGame("PUB", OtherUrl)},
                    !.quizmasters = {"q1"},
                    !.events = stored,
                    !.event_seq = 2 * MaxDate] : stored \in SUBSET StoredEvents}
    /\ site = [name |-> VenueName, games |-> <<G1>>,
               recaps |-> <<EventData(2, "PUB", "q1", Some("recap"), <<>>)>>]
    /\ today = MaxDate
    /\ clock = "day"
    /\ fired = {}
    /\ self_games = None
    /\ last = [op |-> "init", game |-> None, end_date |-> None, ret |-> "None", at |-> "",
               resolved |-> None, repeat |-> FALSE]
    /\ pending = {}
    /\ probe \in {[end_date |-> x, called |-> FALSE, err |-> FALSE, date |-> None] :
                    x \in EndDates}

\* service.end_date = probe.end_date; service._process_end_date()
ProcessEndDate ==
    /\ ~probe.called
    /\ \E r \in {_process_end_date(db, Url, probe.end_date)} :
          probe' = [probe EXCEPT !.called = TRUE, !.err = r.err, !.date = r.date]
    /\ UNCHANGED <<db, site, today, clock, fired, self_games, last, pending>>

NextEndDate ==
    \/ ProcessEndDate
    \/ AdminScrape
    \/ AdminScrapeFull

SpecEndDate == InitEndDate /\ [][NextEndDate]_vars

----------------------------------------------------------------------------
(* Two venues in one store: the other venue has been scraped before *)

\* the page of the other venue: it lists PUB on Wednesdays and shows no recap
OtherPage == PageData("The Other Pub", <<G1>>, <<>>)

\* the store after both venues were added in the admin and the other one was scraped
InitVenues ==
    /\ db = push_to_db([InitDb EXCEPT !.venues = @ \cup {[url |-> OtherUrl, name |-> "",
                                                          last_scraped_at |-> None]}],
                       OtherUrl, TRUE, OtherPage, None, 1, 1).db
    /\ site \in {[name |-> VenueName, games |-> gl, recaps |-> <<>>] :
                    gl \in {<<>>, <<G1>>}}
    /\ today = 2
    /\ clock = "day"
    /\ fired = {}
    /\ self_games = None
    /\ last = [op |-> "init", game |-> None, end_date |-> None, ret |-> "None", at |-> "",
               resolved |-> None, repeat |-> FALSE]
    /\ pending = {}
    /\ probe = NoProbe

NextVenues ==
    \/ AdminScrape
    \/ AdminScrapeFull
    \/ PostRecap(Recaps(today, Types, TeamLists))

SpecVenues == InitVenues /\ [][NextVenues]_vars

----------------------------------------------------------------------------
(* Properties of push_to_db *)

\* the rows of the eight tables push_to_db writes; a Venue row is its url and name
Rows(d) ==
    [venues |-> {[url |-> v.url, name |-> v.name] : v \in d.venues},
     game_types |-> d.game_types, games |-> d.games, quizmasters |-> d.quizmasters,
     events |-> d.events, teams |-> d.teams, team_names |-> d.team_names, teps |-> d.teps]

\* push_to_db on the store d, at the present time
Push(d, is_manual, data, target) == push_to_db(d, Url, is_manual, data, target, today, today)

\* the second of two calls with the same input leaves the rows the first one left
IdempotentOn(first, is_manual, data, target) ==
    Rows(Push(first.db, is_manual, data, target).db) = Rows(first.db)

\* the cutoffs the page is read with: everything, or what is newer than yesterday
Cutoffs == {Some(Epoch), Some(today - 1)}

\* the games an unattended call may have as its target
Targets == {t.game_pk : t \in Tasks("auto_scrape")}

\* C1: in every reachable store and for every page read from the site, an operator's
\* call and an unattended call of push_to_db made twice in a row with the same input
\* leave, after the second call, exactly the rows that were there after the first:
\* the second call creates no row in any of the eight tables.
C1_Idempotent ==
    \A cutoff \in Cutoffs :
        /\ IdempotentOn(Push(db, TRUE, scrape(site, cutoff), None),
                        TRUE, scrape(site, cutoff), None)
        /\ \A g \in Targets :
              IdempotentOn(Push(db, FALSE, scrape(site, cutoff), Some(g)),
                           FALSE, scrape(site, cutoff), Some(g))

\* the second of two identical full scrapes has returned true, and there are events,
\* guest and official teams and participations it could have written again
C1_Witness ==
    /\ last.op = "scrape_full" /\ last.repeat /\ last.ret = "True"
    /\ db.events # {} /\ db.teps # {}
    /\ \E n \in db.team_names : n.guest

\* C2: a call of push_to_db that raises leaves every table, the venue row and the
\* periodic tasks included, exactly as it was before the call.
C2_AllOrNothing ==
    [][(last'.op \in PushOps /\ last'.ret = "raised") => db' = db]_vars

\* a call has raised at the score backfill, after the venue row, the periodic tasks
\* and the placeholder had been written in the same block
C2_Witness ==
    /\ last.op = "auto_scrape" /\ last.ret = "raised" /\ last.at = "autoscrape_teps"
    /\ \E e \in db.events : e.quizmaster = None

----------------------------------------------------------------------------
(* Properties of the unattended lifecycle *)

\* the scraped event is of game g: same type name, played on g's weekday
MatchesGame(e, g) == e.game_type = g.type /\ Some(Weekday(e.date)) = g.day

\* the placeholder Events of game g for the given date
PlaceholdersOf(d, g, date) ==
    {e \in d.events : e.game = g /\ e.date = date
                      /\ e.end_datetime = None /\ e.quizmaster = None}

\* a placeholder of g for today exists and exactly one scraped event matches g
OneMatchForPlaceholder(d, g, event_data) ==
    /\ PlaceholdersOf(d, g, today) # {}
    /\ Cardinality({i \in 1..Len(event_data) : MatchesGame(event_data[i], g)}) = 1

\* the one Event of (g, today) in after is the placeholder of before, filled in from
\* the scraped event that matches g
FilledInPlace(before, after, g, event_data) ==
    \A p \in PlaceholdersOf(before, g, today) :
        \A i \in {j \in 1..Len(event_data) : MatchesGame(event_data[j], g)} :
            {e \in after.events : e.game = g /\ e.date = today}
                = {[p EXCEPT !.end_datetime = Some(today),
                             !.quizmaster = Some(event_data[i].quizmaster),
                             !.description = event_data[i].description]}

AutoScrapeEnabled(d, g) ==
    \E t \in d.periodic_tasks : t.task = "auto_scrape" /\ t.game_pk = g /\ t.enabled

\* C8 as stated: an auto_scrape tick whose push_to_db returned false leaves its own
\* periodic task disabled.
C8_DisabledOnFalse ==
    [][(last'.op = "auto_scrape" /\ last'.ret = "False")
       => ~AutoScrapeEnabled(db', The(last'.game))]_vars

\* C8: an auto_scrape tick disables its own periodic task when push_to_db returned
\* true; when push_to_db returned false or raised, the task stays enabled.
C8_DisabledOnTrue ==
    [][last'.op = "auto_scrape"
       => (AutoScrapeEnabled(db', The(last'.game)) <=> last'.ret # "True")]_vars

\* a tick has found nothing new and its task is still enabled
C8_Witness ==
    /\ last.op = "auto_scrape" /\ last.ret = "False"
    /\ AutoScrapeEnabled(db, The(last.game))

\* C9: the auto_scrape task is disabled by a tick if and only if the push_to_db call
\* of that tick filled in the placeholder Event of the target game; a tick that
\* resolves nothing leaves the task enabled.
C9_DisabledIffResolved ==
    [][last'.op = "auto_scrape"
       => (~AutoScrapeEnabled(db', The(last'.game)) <=> last'.resolved # None)]_vars

\* the Events of game g dated yesterday
YesterdaysEvents(d, g) == {e \in d.events : e.game = g /\ e.date = today - 1}

\* C10: the re-enable pass deletes yesterday's Event of the game only when its end
\* timestamp is still null; when yesterday's Event has an end timestamp or there is
\* none, no Event and no participation is deleted and the scrape task is enabled.
C10_DeletesOnlyDangling ==
    [][last'.op = "reenable_scraping"
       => IF \E e \in YesterdaysEvents(db, The(last'.game)) : e.end_datetime = None
          THEN YesterdaysEvents(db', The(last'.game)) = {}
          ELSE /\ db'.events = db.events
               /\ db'.teps = db.teps
               /\ AutoScrapeEnabled(db', The(last'.game))]_vars

----------------------------------------------------------------------------
(* Properties of the participations *)

\* the pk of the Event of a scraped event, under a lookup of games
EventPkIn(d, games, e) ==
    {x.pk : x \in {y \in d.events : Some(y.game) = MatchEvent(games, e).game /\ y.date = e.date}}

\* the pk of the Team of a scraped team: by team_id, or by guest name
TeamPkIn(d, t) ==
    IF t.team_id # None
    THEN {x.pk : x \in {y \in d.teams : y.team_id = t.team_id}}
    ELSE {n.team : n \in {m \in d.team_names : m.guest /\ m.name = t.name}}

RECURSIVE ScrapedEntries(_, _, _)
\* every scraped (event, team) entry in scrape order, with the Event and the Team it
\* belongs to in store d; two scraped events of one game and date share their Event
ScrapedEntries(d, games, event_data) ==
    IF event_data = <<>> THEN <<>>
    ELSE [i \in 1..Len(Head(event_data).teams) |->
            [event |-> EventPkIn(d, games, Head(event_data)),
             team |-> TeamPkIn(d, Head(event_data).teams[i]),
             name |-> Head(event_data).teams[i].name,
             score |-> Head(event_data).teams[i].score]]
         \o ScrapedEntries(d, games, Tail(event_data))

\* the positions of the entries with the (team, event) pair of entry i
SamePair(entries, i) ==
    {j \in 1..Len(entries) : entries[j].event = entries[i].event
                              /\ entries[j].team = entries[i].team}

\* the pair of entry i appears more than once
Duplicated(entries, i) == Cardinality(SamePair(entries, i)) > 1

\* the entries of the pair of entry i all carry one score
Tied(entries, i) == \A j, k \in SamePair(entries, i) : entries[j].score = entries[k].score

\* the participations of the (team, event) pair of an entry
TepsFor(d, x) == {p \in d.teps : p.event \in x.event /\ p.team \in x.team}

\* the page as the last call of push_to_db read it
LastData == scrape(site, last.end_date)

\* the entries of the page the last call read, against the store it left
LastEntries == ScrapedEntries(db, The(self_games), LastData.event_data)

\* the participations a call created: their (team, event) pair had none before
CreatedTeps(before, after) ==
    {p \in after.teps : ~\E q \in before.teps : q.team = p.team /\ q.event = p.event}

\* the participations a call wrote: created, or given a score
WrittenTeps(before, after) == after.teps \ before.teps

\* every duplicated pair has one participation, with the highest score of the pair
\* if the call wrote it
MaxScoreKept(before, after, entries) ==
    \A i \in 1..Len(entries) :
        Duplicated(entries, i) =>
            /\ Cardinality(TepsFor(after, entries[i])) = 1
            /\ \A p \in TepsFor(after, entries[i]) \cap WrittenTeps(before, after) :
                  p.score = Some(MaxOf({entries[j].score : j \in SamePair(entries, i)}))

\* C4: after a call of push_to_db that returned true, every (team, event) pair that
\* appears more than once in the scraped data has exactly one participation, and if
\* the call wrote it (created it, or filled in its score), its score is the highest
\* score among the entries of the pair.
C4_MaxScore ==
    [][(last'.op \in PushOps /\ last'.ret = "True") =>
        MaxScoreKept(db, db', ScrapedEntries(db', The(self_games'),
                                             scrape(site, last'.end_date).event_data))]_vars

\* the participation created for a tied pair carries the name of its last entry
LastNameKept(before, after, entries) ==
    \A i \in 1..Len(entries) :
        (Duplicated(entries, i) /\ Tied(entries, i)) =>
            \A p \in TepsFor(after, entries[i]) \cap CreatedTeps(before, after) :
                p.team_name = entries[MaxOf(SamePair(entries, i))].name

\* the participation created for a tied pair carries the name of its first entry
FirstNameKept(before, after, entries) ==
    \A i \in 1..Len(entries) :
        (Duplicated(entries, i) /\ Tied(entries, i)) =>
            \A p \in TepsFor(after, entries[i]) \cap CreatedTeps(before, after) :
                p.team_name = entries[MinOf(SamePair(entries, i))].name

\* C5 as stated: a participation that a call creates for a pair whose entries are
\* tied carries the name of the last of the tied entries.
C5_LastWins ==
    [][(last'.op \in PushOps /\ last'.ret = "True") =>
        LastNameKept(db, db', ScrapedEntries(db', The(self_games'),
                                             scrape(site, last'.end_date).event_data))]_vars

\* C5: a participation that a call creates for a pair whose entries are tied carries
\* the name of the first of the tied entries.
C5_FirstWins ==
    [][(last'.op \in PushOps /\ last'.ret = "True") =>
        FirstNameKept(db, db', ScrapedEntries(db', The(self_games'),
                                              scrape(site, last'.end_date).event_data))]_vars

\* a call has returned true on a page in which a team is entered twice with one score
\* under two names, and the participation carries the first name
C5_Witness ==
    /\ last.op \in PushOps /\ last.ret = "True"
    /\ \E i \in 1..Len(LastEntries) :
          /\ SamePair(LastEntries, i) = {i, i + 1}
          /\ Tied(LastEntries, i)
          /\ LastEntries[i].name # LastEntries[i + 1].name
          /\ \E p \in TepsFor(db, LastEntries[i]) :
                p.team_name = LastEntries[i].name /\ p.score = Some(LastEntries[i].score)

\* every created participation carries the name of an entry of its own pair
ExactNameKept(before, after, entries) ==
    \A p \in CreatedTeps(before, after) :
        \E i \in 1..Len(entries) :
            /\ p.event \in entries[i].event
            /\ p.team \in entries[i].team
            /\ p.team_name = entries[i].name

\* C6: every participation a call creates carries the name of a scraped entry of its
\* own team in its own event, never another name the team owns.
C6_ExactName ==
    [][(last'.op \in PushOps /\ last'.ret = "True") =>
        ExactNameKept(db, db', ScrapedEntries(db', The(self_games'),
                                              scrape(site, last'.end_date).event_data))]_vars

\* an official team owns two names and has a participation under the second
C6_Witness ==
    /\ last.op \in PushOps /\ last.ret = "True"
    /\ \E t \in db.teams :
          /\ t.team_id # None
          /\ {n.name : n \in {x \in db.team_names : x.team = t.pk}} = {"A", "B"}
          /\ \E p \in db.teps : p.team = t.pk /\ p.team_name = "B"

----------------------------------------------------------------------------
(* Properties of the game matching *)

\* the games of the lookup under the key (game_type, day); day is None for a custom game
UnderKey(games, game_type, day) == {g \in games : g.type = game_type /\ g.day = day}

\* C7: a call of _match_game_to_event returns the game under (game_type, weekday) if
\* the lookup has one, also when it has a custom game of that type; otherwise the
\* custom game under (game_type, None) if it has one; otherwise it fails with a
\* lookup error and returns no game.
C7_Matching ==
    probe.called =>
        IF UnderKey(The(self_games), probe.game_type, Some(probe.day)) # {}
        THEN ~probe.err
             /\ probe.game = UnderKey(The(self_games), probe.game_type, Some(probe.day))
        ELSE IF UnderKey(The(self_games), probe.game_type, None) # {}
             THEN ~probe.err
                  /\ probe.game = UnderKey(The(self_games), probe.game_type, None)
             ELSE probe.err /\ probe.game = None

\* a call on a lookup that has both the exact and the custom game has returned the
\* exact one
C7_Witness ==
    /\ probe.called
    /\ UnderKey(The(self_games), probe.game_type, Some(probe.day)) # {}
    /\ UnderKey(The(self_games), probe.game_type, None) # {}
    /\ probe.game = UnderKey(The(self_games), probe.game_type, Some(probe.day))

----------------------------------------------------------------------------
(* Properties of the weekly cycle *)

\* the auto_scrape tasks whose scrape window is today
WindowToday(d) ==
    {t \in d.periodic_tasks : /\ t.task = "auto_scrape"
                               /\ t.crontab.day_of_week = (Weekday(today) + 1) % 7}

\* C11: the cycle of a game slot always closes: when the day of a scrape window
\* begins (midnight has passed), the auto_scrape task of every game played that day
\* is enabled, whether last week's placeholder was resolved or orphaned.
C11_EnabledAtNextWindow ==
    last.op = "pass_midnight" => \A t \in WindowToday(db) : t.enabled

----------------------------------------------------------------------------
(* Properties of the unattended caller *)

\* the enabled flag of every periodic task, by name
Flags(d) == {<<t.name, t.task, t.enabled>> : t \in d.periodic_tasks}

\* C12: an auto_scrape attempt that fails, because scrape_data raises or because
\* push_to_db raises, leaves the enabled flag of every periodic task as it was: a
\* failed attempt neither disables nor re-enables.
C12_FailedAttemptKeepsFlag ==
    [][(last'.op = "auto_scrape" /\ last'.ret = "raised") => Flags(db') = Flags(db)]_vars

\* an attempt has failed in the extractor and its task is still enabled
C12_Witness ==
    /\ last.op = "auto_scrape" /\ last.ret = "raised" /\ last.at = "scrape_data"
    /\ AutoScrapeEnabled(db, The(last.game))

\* the block ran to its end: the venue is stamped and every scraped entry has its
\* Event and its participation
RanToCompletion(d, data, entries) ==
    /\ data.event_data # <<>>
    /\ \A v \in d.venues : v.url = Url => v.last_scraped_at = Some(today)
    /\ \A i \in 1..Len(entries) : entries[i].event # {} /\ TepsFor(d, entries[i]) # {}

\* C13: an unattended call of push_to_db on an empty event list returns false,
\* raises nothing and leaves every table unchanged; an unattended call that returns
\* true has run the transaction to completion.
C13_SignalledNoOp ==
    [][(last'.op = "auto_scrape" /\ last'.at # "scrape_data") =>
        /\ scrape(site, last'.end_date).event_data = <<>>
              => (last'.ret = "False" /\ db' = db)
        /\ last'.ret = "True"
              => RanToCompletion(db', scrape(site, last'.end_date),
                                 ScrapedEntries(db', The(self_games'),
                                                scrape(site, last'.end_date).event_data))]_vars

\* an unattended call found nothing newer than what the store holds and returned false
C13_Witness ==
    /\ last.op = "auto_scrape" /\ last.ret = "False" /\ last.at # "scrape_data"
    /\ LastData.event_data = <<>>
    /\ db.events # {}

----------------------------------------------------------------------------
(* Properties of the scrape window *)

\* the call was made with the time h:m and returned the text
Returned(h, m, text) ==
    probe.game_time = TimeOfDay(h, m) => (~probe.err /\ probe.hours = text)

\* C14: for every time of day strictly before 21:30, _generate_crontab_hours returns
\* "H+1-H+2" when the minutes are below 30 and "H+1-H+3" otherwise; for every time
\* at or after 21:30 it raises and returns nothing. 14:00 gives "15-16", 09:15
\* "10-11", 17:45 "18-20" and 21:15 "22-23".
C14_CrontabHours ==
    probe.called =>
        /\ IF probe.game_time.hour * 60 + probe.game_time.minute < 21 * 60 + 30
           THEN /\ ~probe.err
                /\ probe.hours = HourRange(probe.game_time.hour + 1,
                                           IF probe.game_time.minute < 30
                                           THEN probe.game_time.hour + 2
                                           ELSE probe.game_time.hour + 3)
           ELSE probe.err /\ probe.hours = ""
        /\ Returned(14, 0, "15-16")
        /\ Returned(9, 15, "10-11")
        /\ Returned(17, 45, "18-20")
        /\ Returned(21, 15, "22-23")

\* the call on 17:45 has returned "18-20"
C14_Witness ==
    probe.called /\ probe.game_time = TimeOfDay(17, 45) /\ probe.hours = "18-20"

----------------------------------------------------------------------------
(* Properties of a first reconcile *)

\* the Team rows of official team 42, and the guest Team rows
Official(d) == {t \in d.teams : t.team_id = Some(42)}
Guests(d) == {t \in d.teams : t.team_id = None}

\* the participations of the teams in T, as (team_name, score) pairs
ScoresOf(d, T) == {<<p.team_name, p.score>> : p \in {q \in d.teps : q.team \in {t.pk : t \in T}}}

\* C15: after a manual push_to_db on a store without rows, with one listed game
\* ("PUB QUIZ", Mondays) and one recap of a Monday with official team 42 (score 80)
\* and the guest team "Walkers" (score 65), the store holds exactly one Venue, one
\* GameType, one Game (on Mondays), one Event, one official Team 42 with one
\* TeamName, one guest Team with the guest TeamName "Walkers", and two
\* participations: 80 for team 42 and 65 for the guests.
C15_EndToEnd ==
    last.op = "push_to_db" =>
        /\ last.ret = "True"
        /\ Cardinality(db.venues) = 1
        /\ db.game_types = {"PUB QUIZ"}
        /\ Cardinality(db.games) = 1 /\ \A g \in db.games : g.day = Some(0)
        /\ Cardinality(db.events) = 1
        /\ Cardinality(db.teams) = 2
        /\ Cardinality(Official(db)) = 1 /\ Cardinality(Guests(db)) = 1
        /\ Cardinality(db.team_names) = 2
        /\ \A t \in Official(db) :
              {n \in db.team_names : n.team = t.pk} = {[name |-> "A", team |-> t.pk, guest |-> FALSE]}
        /\ \A t \in Guests(db) :
              {n \in db.team_names : n.team = t.pk}
                  = {[name |-> "Walkers", team |-> t.pk, guest |-> TRUE]}
        /\ Cardinality(db.teps) = 2
        /\ \A p \in db.teps : \E e \in db.events : p.event = e.pk
        /\ ScoresOf(db, Official(db)) = {<<"A", Some(80)>>}
        /\ ScoresOf(db, Guests(db)) = {<<"Walkers", Some(65)>>}

\* the call has returned and both participations are in the store
C15_Witness ==
    /\ last.op = "push_to_db" /\ last.ret = "True"
    /\ {p.score : p \in db.teps} = {Some(80), Some(65)}

----------------------------------------------------------------------------
(* Properties of the score backfill *)

\* the participations attached to the placeholder of g for today that have no score
Unscored(d, g) ==
    {p \in d.teps : p.score = None
                     /\ \E e \in PlaceholdersOf(d, g, today) : p.event = e.pk}

\* the positions, in the score sheet of the scraped event that matches g, of the
\* entries with the key (team_id, name) of participation p
KeyEntries(d, g, event_data, p) ==
    UNION {{<<i, j>> : j \in {k \in 1..Len(event_data[i].teams) :
                        /\ event_data[i].teams[k].name = p.team_name
                        /\ \E t \in d.teams : t.pk = p.team
                                               /\ t.team_id = event_data[i].teams[k].team_id}} :
            i \in {n \in 1..Len(event_data) : MatchesGame(event_data[n], g)}}

\* the score of the last entry with the key of p
LastScore(d, g, event_data, p) ==
    event_data[The({x[1] : x \in KeyEntries(d, g, event_data, p)})]
        .teams[MaxOf({x[2] : x \in KeyEntries(d, g, event_data, p)})].score

\* C16: in an unattended call of push_to_db that has a placeholder to resolve (a
\* placeholder of the target game for today, and exactly one scraped event matching
\* the game), if a participation of the placeholder without a score has a
\* (team_id, name) key that no entry of the matching event carries, the call raises,
\* no participation is changed and the placeholder stays unresolved.
C16_MismatchIsFatal ==
    [][(/\ last'.op = "auto_scrape" /\ last'.at # "scrape_data"
        /\ OneMatchForPlaceholder(db, The(last'.game), scrape(site, last'.end_date).event_data)
        /\ \E p \in Unscored(db, The(last'.game)) :
              KeyEntries(db, The(last'.game), scrape(site, last'.end_date).event_data, p) = {})
       => /\ last'.ret = "raised"
          /\ db'.teps = db.teps
          /\ PlaceholdersOf(db', The(last'.game), today)
                = PlaceholdersOf(db, The(last'.game), today)]_vars

\* a call has raised at the backfill and the participation it could not match is
\* still without a score, on a placeholder that is still open
C16_Witness ==
    /\ last.op = "auto_scrape" /\ last.ret = "raised" /\ last.at = "autoscrape_teps"
    /\ Unscored(db, The(last.game)) # {}

\* every participation that had no score has the score of the last scraped entry with
\* its key, none of the event is without a score, and no pair has two
Backfilled(before, after, g, event_data, event_pk) ==
    /\ \A p \in {q \in before.teps : Some(q.event) = event_pk /\ q.score = None} :
          /\ KeyEntries(before, g, event_data, p) # {}
          /\ [p EXCEPT !.score = Some(LastScore(before, g, event_data, p))] \in after.teps
    /\ \A p \in after.teps : Some(p.event) = event_pk => p.score # None
    /\ \A p, q \in after.teps : (p.event = q.event /\ p.team = q.team) => p = q

\* C17: after an unattended call of push_to_db that resolved a placeholder and
\* returned true, every participation of that Event that had no score holds the
\* score of the scraped entry with its (team_id, name) key (the last one, if several
\* carry the key), no participation of the Event is without a score, and no
\* (team, event) pair has a second participation.
C17_Backfill ==
    [][(last'.op = "auto_scrape" /\ last'.ret = "True" /\ last'.resolved # None)
       => Backfilled(db, db', The(last'.game), scrape(site, last'.end_date).event_data,
                     last'.resolved)]_vars

\* a call has resolved a placeholder that had a participation attached by hand, on
\* a score sheet that enters the team's key twice, and the participation has the
\* score of the later entry
C17_Witness ==
    /\ last.op = "auto_scrape" /\ last.ret = "True" /\ last.resolved # None
    /\ \E e \in Range(LastData.event_data) :
          e.teams = <<TeamData(Some(42), "A", 70), TeamData(Some(42), "A", 50)>>
    /\ \E p \in db.teps : Some(p.event) = last.resolved /\ p.score = Some(50)

----------------------------------------------------------------------------
(* Properties of the game lookup *)

\* the page lists one type twice on one weekday, at different times
ListedTwice(page) ==
    \E i, j \in 1..Len(page.games) :
        /\ page.games[i].type = page.games[j].type
        /\ page.games[i].day = page.games[j].day
        /\ page.games[i].time # page.games[j].time

\* the call gets as far as step 3: it is manual, or there is a scraped event
ReachesGames(op, data) == op # "auto_scrape" \/ data.event_data # <<>>

\* C18: a call of push_to_db whose re-read games hold two Games of the venue with
\* the same (type name, weekday) key, as when the page lists a type twice on one
\* weekday at different times, raises and leaves the store as it was.
C18_AmbiguousIsFatal ==
    [][(/\ last'.op \in PushOps /\ last'.at # "scrape_data"
        /\ ReachesGames(last'.op, scrape(site, last'.end_date))
        /\ ListedTwice(site))
       => (last'.ret = "raised" /\ db' = db)]_vars

\* a call has raised at the ambiguity check of step 3 and no Game was persisted
C18_Witness ==
    /\ last.op \in PushOps /\ last.ret = "raised" /\ last.at = "games"
    /\ ListedTwice(site)
    /\ db.games = {}

----------------------------------------------------------------------------
(* Properties of the target selection of step 6 *)

\* the scraped events that match game g
MatchesOf(event_data, g) == {i \in 1..Len(event_data) : MatchesGame(event_data[i], g)}

\* the Events that wait for their recap
Open(d) == {e \in d.events : e.quizmaster = None}

\* every scraped event has an Event of its game and date
AllHaveEvents(d, games, event_data) ==
    \A i \in 1..Len(event_data) : EventPkIn(d, games, event_data[i]) # {}

\* C19: in an unattended call of push_to_db, if no scraped event matches the target
\* game, no placeholder is changed and every scraped event is handled by the generic
\* event creation; if more than one matches, the call raises and the store is as
\* before. A manual call changes no placeholder.
C19_TargetSelection ==
    [][/\ (/\ last'.op = "auto_scrape" /\ last'.at # "scrape_data"
            /\ MatchesOf(scrape(site, last'.end_date).event_data, The(last'.game)) = {})
           => /\ last'.resolved = None
              /\ Open(db) \subseteq Open(db')
              /\ last'.ret = "True"
                  => AllHaveEvents(db', The(self_games'),
                                   scrape(site, last'.end_date).event_data)
       /\ (/\ last'.op = "auto_scrape" /\ last'.at # "scrape_data"
            /\ Cardinality(MatchesOf(scrape(site, last'.end_date).event_data,
                                      The(last'.game))) > 1)
           => (last'.ret = "raised" /\ db' = db)
       /\ last'.op \in {"scrape", "scrape_full"}
           => (last'.resolved = None /\ Open(db) \subseteq Open(db'))]_vars

\* an unattended call has found two recaps of its game and raised
C19_Witness ==
    /\ last.op = "auto_scrape" /\ last.ret = "raised" /\ last.at = "autoscrape_event"
    /\ Cardinality(MatchesOf(LastData.event_data, The(last.game))) > 1

----------------------------------------------------------------------------
(* Uniqueness of Events and TeamEventParticipations *)

\* Event.Meta: unique (game, date)
OneEventPerDate(d) ==
    \A e1, e2 \in d.events : (e1.game = e2.game /\ e1.date = e2.date) => e1 = e2

\* TeamEventParticipation.Meta: unique (team, event)
OneTepPerPair(d) ==
    \A t1, t2 \in d.teps : (t1.team = t2.team /\ t1.event = t2.event) => t1 = t2

\* C20: in every reachable state there is at most one Event per (game, date) and at
\* most one TeamEventParticipation per (team, event).
C20_Uniqueness == OneEventPerDate(db) /\ OneTepPerPair(db)

\* a reconcile has stored a page with two recaps of one game and date, with teams
C20_Witness ==
    /\ last.op \in PushOps /\ last.ret = "True"
    /\ \E i, j \in 1..Len(LastData.event_data) :
          /\ i # j
          /\ LastData.event_data[i].game_type = LastData.event_data[j].game_type
          /\ LastData.event_data[i].date = LastData.event_data[j].date
    /\ db.events # {} /\ db.teps # {}

----------------------------------------------------------------------------
(* Properties of the guest teams *)

\* the TeamName rows of a team
NamesOf(d, team_pk) == {n \in d.team_names : n.team = team_pk}

\* TeamName.Meta unique_guest_team_name and guest_team_single_name, and a name for
\* every Team: a guest name has one owner, a guest Team has one name, which is a
\* guest name, and no Team is without a name
GuestTeamsWellFormed(d) ==
    /\ \A n1, n2 \in d.team_names :
          (n1.guest /\ n2.guest /\ n1.name = n2.name) => n1.team = n2.team
    /\ \A t \in Guests(d) :
          /\ Cardinality(NamesOf(d, t.pk)) = 1
          /\ \A n \in NamesOf(d, t.pk) : n.guest
    /\ \A t \in d.teams : NamesOf(d, t.pk) # {}

\* the guest names of a page that store d does not have
NewGuestNames(d, event_data) ==
    UniqueGuestNames(event_data) \ {n.name : n \in {x \in d.team_names : x.guest}}

\* C21: after every step the guest teams are well formed: every guest name is owned
\* by one guest Team, every guest Team has exactly one TeamName, which is a guest
\* name, and no Team is without a name; and a call of push_to_db that returns true
\* keeps every TeamName it found and creates exactly one guest Team for each scraped
\* guest name the store did not have, none for a guest name it had.
C21_GuestTeams ==
    [][/\ GuestTeamsWellFormed(db')
       /\ (last'.op \in PushOps /\ last'.ret = "True")
           => /\ db.team_names \subseteq db'.team_names
              /\ Guests(db) \subseteq Guests(db')
              /\ Cardinality(Guests(db') \ Guests(db))
                    = Cardinality(NewGuestNames(db, scrape(site, last'.end_date).event_data))]_vars

\* the recap lists the guests "A" and "B"; the page has been stored a second time
\* and each of the two names still has its one guest Team
C21_Witness ==
    /\ last.op \in PushOps /\ last.ret = "True" /\ last.repeat
    /\ \E e \in Range(LastData.event_data) :
          /\ \E t \in Range(e.teams) : t.team_id = None /\ t.name = "A"
          /\ \E t \in Range(e.teams) : t.team_id = None /\ t.name = "B"
    /\ Cardinality(Guests(db)) = 2

----------------------------------------------------------------------------
(* Properties of the placeholder generation *)

\* the Events of game g dated today
TodaysEvents(d, g) == {e \in d.events : e.game = g /\ e.date = today}

\* the step has added one Event to the store, a bare Event of game g dated today, and
\* has changed nothing else
OneBareEvent(before, after, g) ==
    /\ Cardinality(after.events \ before.events) = 1
    /\ before.events \subseteq after.events
    /\ \A e \in after.events \ before.events :
          /\ e.game = g /\ e.date = today
          /\ e.end_datetime = None /\ e.description = None
          /\ e.quizmaster = None /\ e.theme = None
    /\ [after EXCEPT !.events = before.events, !.event_seq = before.event_seq] = before

\* C22 as stated: every run of generate_placeholder_event for game G creates exactly
\* one new Event of G dated today with end_datetime, description, quizmaster and theme
\* null, and changes no other row.
C22_AlwaysCreated ==
    [][last'.op = "generate_placeholder_event"
       => OneBareEvent(db, db', The(last'.game))]_vars

\* C22, amended: a run of generate_placeholder_event for game G that finds no Event of
\* G dated today creates exactly one new Event of G dated today with end_datetime,
\* description, quizmaster and theme null, and changes no other row; a run that finds
\* one raises and changes no row.
C22_CreatedUnlessTaken ==
    [][last'.op = "generate_placeholder_event"
       => IF TodaysEvents(db, The(last'.game)) = {}
          THEN last'.ret = "None" /\ OneBareEvent(db, db', The(last'.game))
          ELSE last'.ret = "raised" /\ db' = db]_vars

\* a placeholder has been created next to the Events the store already had
C22_Witness ==
    /\ last.op = "generate_placeholder_event" /\ last.ret = "None"
    /\ \E e \in TodaysEvents(db, The(last.game)) : e.quizmaster = None
    /\ \E e \in db.events : e.quizmaster # None

----------------------------------------------------------------------------
(* Properties of the scrape cutoff *)

\* the Events of the venue with the given URL
EventsAt(d, url) == {e \in d.events : e.game.venue = url}

\* cutoff is the date of the latest Event of the venue, or None when it has no Event
LatestKnown(d, url, cutoff) ==
    IF EventsAt(d, url) = {} THEN cutoff = None
    ELSE \E e \in EventsAt(d, url) :
            cutoff = Some(e.date) /\ \A f \in EventsAt(d, url) : f.date <= e.date

\* C23: _process_end_date returns a date object as it is; parses a string of the form
\* YYYY-MM-DD to the date it names and raises ValueError on a string that is no date;
\* with no cutoff given it returns the date of the latest Event stored for the venue
\* URL, the Events of other venues set aside, or None if the venue has no Event.
\* The admin action "scrape new data" reads the page with the latest known Event
\* date of the venue as its cutoff, "force full re-scrape" with 1970-01-01.
C23_EndDate ==
    [][/\ (probe'.called /\ ~probe.called)
           => /\ probe'.end_date.kind = "date"
                   => (~probe'.err /\ probe'.date = Some(probe'.end_date.date))
              /\ \A t \in DateTexts :
                    probe'.end_date = Text(t[1]) => (~probe'.err /\ probe'.date = Some(t[2]))
              /\ \A t \in BadTexts : probe'.end_date = Text(t) => probe'.err
              /\ probe'.end_date.kind = "none"
                   => (~probe'.err /\ LatestKnown(db, Url, probe'.date))
              /\ probe'.end_date.kind = "other" => probe'.err
       /\ (probe' = probe /\ last'.op = "scrape") => LatestKnown(db, Url, last'.end_date)
       /\ (probe' = probe /\ last'.op = "scrape_full") => last'.end_date = Some(Epoch)]_vars

\* no cutoff was given; the venue has Events, and another venue has a later one
C23_Witness ==
    /\ probe.called /\ probe.end_date.kind = "none" /\ probe.date = Some(1)
    /\ \E e \in EventsAt(db, OtherUrl) : e.date > 1

----------------------------------------------------------------------------
(* Properties of overlapping ticks *)

\* the Events of game g dated today that have their recap
ResolvedToday(d, g) == {e \in TodaysEvents(d, g) : e.quizmaster # None}

\* C24: when a tick of auto_scrape writes while the Event of its game and day has
\* already been resolved (by a tick that overlapped it, read the same page and wrote
\* first), the tick resolves nothing, the resolved Event keeps its end_datetime,
\* quizmaster and description, every participation of that Event that has a score
\* keeps it, and there is still one Event of the game and the day only.
C24_OverlapTolerated ==
    [][last'.op = "auto_scrape"
       => /\ Cardinality(TodaysEvents(db', The(last'.game))) <= 1
          /\ \A e \in ResolvedToday(db, The(last'.game)) :
                /\ last'.resolved = None
                /\ e \in db'.events
                /\ \A p \in db.teps : (p.event = e.pk /\ p.score # None) => p \in db'.teps]_vars

\* two ticks had read the same page with the recap of the night; the first has
\* resolved the placeholder and backfilled a score, the second has written after it
C24_Witness ==
    /\ last.op = "auto_scrape" /\ last.ret = "raised" /\ last.at = "autoscrape_event"
    /\ pending = {}
    /\ \E e \in ResolvedToday(db, The(last.game)) :
          /\ e.end_datetime # None
          /\ \E p \in db.teps : p.event = e.pk /\ p.score # None
    /\ \E t \in Tasks("auto_scrape") : ~t.enabled

----------------------------------------------------------------------------
(* Properties of the game lookup *)

----------------------------------------------------------------------------
(* Properties of the memoized matching *)

\* C26: in every call of push_to_db, the memoized _match_game_to_event returns what
\* the method returns without the cache on the game map of that call, also on a
\* service object that has run an earlier call with another game map: no match
\* cached in an earlier call is served to a later one.
C26_MemoSound ==
    probe.called
        => /\ probe.err = _match_game_to_event(The(self_games), probe.game_type, probe.day).err
           /\ probe.game = _match_game_to_event(The(self_games), probe.game_type, probe.day).game

----------------------------------------------------------------------------
(* Properties of the matching inside a call *)

\* the page lists the type of the scraped event, but not on the weekday of the event
ListedOnAnotherDay(page, e) ==
    /\ \E g \in Range(page.venue_data.games) : g.type = e.game_type
    /\ ~\E g \in Range(page.venue_data.games) :
            g.type = e.game_type /\ g.day = Weekday(e.date)

\* C27: in a call of push_to_db whose step 3 has built the lookup (no ambiguity),
\* _match_game_to_event finds a game for every scraped event of the call, so no step
\* raises for an unmatched game; an event whose type the page lists only on another
\* weekday is matched to the custom game (day null) of its type.
C27_MatchingIsTotal ==
    [][(last'.op \in PushOps /\ last'.at # "scrape_data" /\ self_games' # None)
       => \A e \in Range(scrape(site, last'.end_date).event_data) :
            /\ ~MatchEvent(The(self_games'), e).err
            /\ ListedOnAnotherDay(scrape(site, last'.end_date), e)
                => MatchEvent(The(self_games'), e).game = Some(CustomGame(e.game_type, Url))]_vars

\* PUB is listed on Wednesdays; a call has stored a PUB recap of a Thursday under the
\* custom PUB game
C27_Witness ==
    /\ last.op \in PushOps /\ last.ret = "True"
    /\ \E e \in Range(LastData.event_data) :
          /\ ListedOnAnotherDay(LastData, e)
          /\ \E x \in db.events : x.game = CustomGame(e.game_type, Url) /\ x.date = e.date

----------------------------------------------------------------------------
(* Properties of the recap that fills a placeholder *)

\* C28: whenever an unattended call resolves the placeholder Event of its game, the
\* scraped event whose quizmaster, description and scores it writes into the
\* placeholder has the date of the placeholder, which is today.
C28_OwnDate ==
    [][(last'.op = "auto_scrape" /\ last'.resolved # None)
       => \A i \in MatchesOf(scrape(site, last'.end_date).event_data, The(last'.game)) :
             /\ scrape(site, last'.end_date).event_data[i].date = today
             /\ \A e \in db'.events :
                   Some(e.pk) = last'.resolved
                      => e.date = scrape(site, last'.end_date).event_data[i].date]_vars

\* a call of the kind C28 speaks of: on the second Tuesday the page shows the recap
\* of this very night, and the tick fills today's placeholder with it
C28_Witness ==
    /\ last.op = "auto_scrape"
    /\ last.resolved # None
    /\ today = MaxWeekDate
    /\ \E i \in MatchesOf(scrape(site, last.end_date).event_data, The(last.game)) :
          \E e \in db.events :
              /\ Some(e.pk) = last.resolved
              /\ e.date = scrape(site, last.end_date).event_data[i].date
              /\ e.quizmaster # None

----------------------------------------------------------------------------
(* Properties of the schedules of a game *)

\* the periodic tasks of one kind that sync has created for a game
TasksOf(d, g, kind) == {t \in d.periodic_tasks : t.task = kind /\ t.game_pk = g}

\* the games crontab_hours accepts: a weekday, and a time before 21:30
Schedulable(d) ==
    {g \in d.games : /\ g.day # None /\ g.time # None
                      /\ ~_generate_crontab_hours(The(g.time)).err}

HoursOfDay == 0..23

\* C29: every game with a weekday and a time from 00:00 to 21:29 that is stored has
\* its three periodic tasks, and their crontabs are well-formed and ordered: the
\* placeholder job at the hour before the game, an hour of the day; the scrape
\* window between two hours of the day and starting after the placeholder job, both
\* on cron day (weekday + 1) mod 7; the re-enable job at 00:00 on cron day
\* (weekday + 2) mod 7.
C29_SchedulesWellFormed ==
    \A g \in Schedulable(db) :
        /\ TasksOf(db, g, "generate_placeholder_event") # {}
        /\ TasksOf(db, g, "auto_scrape") # {}
        /\ TasksOf(db, g, "reenable_scraping") # {}
        /\ \A t \in TasksOf(db, g, "generate_placeholder_event") :
              /\ The(g.time).hour - 1 \in HoursOfDay
              /\ t.crontab.hour = ToString(The(g.time).hour - 1)
              /\ t.crontab.minute = ToString(The(g.time).minute)
              /\ t.crontab.day_of_week = (The(g.day) + 1) % 7
        /\ \A t \in TasksOf(db, g, "auto_scrape") :
              /\ \E lo, hi \in HoursOfDay :
                    /\ t.crontab.hour = HourRange(lo, hi)
                    /\ The(g.time).hour - 1 < lo
                    /\ lo <= hi
              /\ t.crontab.day_of_week = (The(g.day) + 1) % 7
        /\ \A t \in TasksOf(db, g, "reenable_scraping") :
              /\ t.crontab.hour = "0"
              /\ t.crontab.minute = "0"
              /\ t.crontab.day_of_week = (The(g.day) + 2) % 7

----------------------------------------------------------------------------
(* Properties of a reconcile on a page that lists a game at or after 21:30 *)

\* the page lists a game for which _generate_crontab_hours raises
ListsLateGame(page) ==
    \E g \in Range(page.venue_data.games) : _generate_crontab_hours(g.time).err

\* C30: a call of push_to_db, by an operator or unattended, on a page that lists a
\* game starting at or after 21:30 does not end in the unsupported-hour error of the
\* schedule set-up, and when it has read the page it leaves the venue under its
\* name, the listed games and an Event for every scraped recap in the store.
C30_ImportSurvivesLateGame ==
    [][(/\ last'.op \in PushOps
        /\ last'.at # "scrape_data"
        /\ ListsLateGame(scrape(site, last'.end_date))
        /\ (last'.op = "auto_scrape" => scrape(site, last'.end_date).event_data # <<>>))
       => /\ last'.at # "sync"
          /\ (last'.ret # "raised")
                => /\ \E v \in db'.venues : v.url = Url /\ v.name = site.name
                   /\ ListedGames(scrape(site, last'.end_date), Url) \subseteq db'.games
                   /\ \A e \in Range(scrape(site, last'.end_date).event_data) :
                         \E x \in db'.events : x.date = e.date]_vars

====
